---- MODULE Spec2Model ----
(***************************************************************************)
(* Model of the async bridge of veecle-freertos-integration:               *)
(*   - the kernel queue behind Queue<T> (queue.rs),                        *)
(*   - AsyncQueue with its two AtomicWaker mailboxes, and the              *)
(*     AsyncQueueSender / AsyncQueueReceiver operations (queue.rs),        *)
(*   - the task waker and block_on_future (task/block_on_future.rs),       *)
(*   - task notifications (task/mod.rs).                                   *)
(* Every atomic operation on shared state (a kernel call, one atomic       *)
(* read-modify-write of an AtomicWaker) is one step of a thread of control.*)
(***************************************************************************)
EXTENDS Integers, Sequences, FiniteSets, TLC

\* ---------------------------------------------------------------- bounds
MaxCapacity == 2      \* channel capacities 1..MaxCapacity
MaxItems == 3         \* send operations started by the sender
MaxPolls == 4         \* polls the counting computation needs to get ready
MaxStale == 1         \* notification value left over when block_on_future starts
MaxValue == 2         \* values the counting computation may return
MaxChainItems == 2    \* items the producer sends into the chain of bridge tasks
TickTypeBits == 6     \* width of TickType_t in bits
MaxTickPeriod == 3    \* portTICK_PERIOD_MS is in 1..MaxTickPeriod
MaxHandles == 2       \* Queue<T> values of one kernel queue alive at a time
MaxQueueItems == 2    \* items sent through the Queue<T> values
MaxPeriod == 2        \* timer periods are 0..MaxPeriod ticks
MaxTimerOps == 4      \* calls of the Timer / TimerHandle functions
MaxExpiries == 2      \* expiries of the timer
TimerQueueLength == 2 \* configTIMER_QUEUE_LENGTH of the kernel configuration
MaxNotifyValue == 3   \* notification values passed to Task::notify
MaxStalePolled == 0   \* notification value a task may have left when it
                      \* starts to poll an operation that can be abandoned
MaxPolledItems == 1   \* pollable sends started on a channel whose operations
                      \* can be abandoned

\* ---------------------------------------------------------------- names
SenderTask == "sender"
ReceiverTask == "receiver"
DriverTask == "driver"
BlockingToAsyncTask == "blocking_to_async"
ConsumerTask == "consumer"
Tasks == {SenderTask, ReceiverTask, DriverTask, BlockingToAsyncTask,
          ConsumerTask}
ChannelTasks == {SenderTask, ReceiverTask}

NoWaker == "no_waker"
\* An item slot is <<>> (empty) or <<item>>
NoItem == <<>>
Some(item) == <<item>>
Items == 1..MaxItems

\* Width of the unsigned kernel integers; narrowed so that the model checker's
\* integers can hold it, wrap-around is what matters.
UnsignedModulus == 2^16

\* max_wait of a blocking call: Duration::zero(), a finite Duration, and
\* Duration::max() (portMAX_DELAY).
Waits == {"zero", "finite", "max"}

VARIABLES
    queue,          \* the kernel queue: [items, uxLength]
    wakers,         \* AsyncQueue.send_waker / .receive_waker: [state, waker]
    notif,          \* notification value of every task
    pc,             \* position of every thread of control
    op,             \* the operation a thread runs: [kind, item, wait]
    taken,          \* the Waker a thread's last wake or register call took
                    \* out of a mailbox
    result,         \* what the last finished operation returned
    polls,          \* polls of the future of the current block_on_future
                    \* (counted up to MaxPolls + 1)
    nextItem,       \* next item the sender will send
    sentLog,        \* items in the order they entered the queue
    recvLog,        \* items in the order they left the queue
    isrCalls,       \* kernel functions called from interrupt context
    recvStarted,    \* a receive has been started on the channel
    readySends,     \* pollable sends that completed
    fut,            \* the counting computation: [needed, remaining, value]
    owed,           \* wake signals the external source still owes the driver
    wakes,          \* waker::wake calls on every task since the task's last
                    \* take_notification
    callerIsTask,   \* block_on_future is called by a FreeRTOS task
    currentTaskHandle,  \* what xTaskGetCurrentTaskHandle returns to the
                    \* caller of block_on_future
    maxWaitElapses, \* a wait of Duration::max() ticks can run out
    handles,        \* the AsyncQueueSender / AsyncQueueReceiver that exist,
                    \* named by the task that owns them
    strong,         \* strong count of the Arc<AsyncQueue>
    deleted,        \* vQueueDelete calls
    channelResult,  \* what channel(max_size) returned
    bqueue,         \* the blocking Queue<T> of the bridge tasks
    queue2,         \* kernel queue of the BlockingToAsync channel
    wakers2,        \* mailboxes of the BlockingToAsync channel
    bqueueSent,     \* items in the order they entered bqueue
    bqueueRecv,     \* items in the order they left bqueue
    sentLog2,       \* items in the order they entered queue2
    recvLog2,       \* items in the order they left queue2
    tickPeriod,     \* portTICK_PERIOD_MS of the kernel configuration
    overflowChecks, \* the build has overflow checks (debug-assertions)
    duration,       \* the Duration last constructed
    made,           \* how it was constructed: [ctor, arg]
    unitsOut,       \* what the last ms() / ticks() call on it returned
    clones,         \* the Queue<T> values of bqueue that are alive
    raw,            \* a raw_handle() of bqueue is known
    bqueueDeleted,  \* vQueueDelete calls on bqueue
    sentVia,        \* the Queue<T> every item of bqueueSent was sent through
    recvVia,        \* the Queue<T> every item of bqueueRecv was received
                    \* through
    qop,            \* the last operation on a Queue<T> of bqueue
    timer,          \* the kernel's timer: [created, freed, active, period,
                    \* autoReload]
    owner,          \* the Timer<F> value: none, owned, detached, dropped,
                    \* failed
    callback,       \* the boxed callback: [boxed, freed, invoked,
                    \* usedAfterFree, deletedFirst]
    timerQueue,     \* command queue of the timer service task
    tcall,          \* the last Timer / TimerHandle call and its result
    dropPc,         \* position of Timer::drop
    handleCopy,     \* a copy of the TimerHandle is kept outside the Timer
    notifyState,    \* ucNotifyState of the notified task: not_waiting,
                    \* waiting, received
    ncall,          \* the last notify / take / wait call on the task
    dropped,        \* items whose destructor ran
    creator,        \* the code that starts a task or creates a pump task:
                    \* [builder, pc, started, created]
    closure,        \* the boxed task closure: [kind, captured, boxed,
                    \* freed, runs]
    thread          \* position of the task the kernel created

chan == <<queue, wakers>>
ghost == <<sentLog, recvLog, isrCalls, recvStarted, readySends>>
drive == <<fut, owed>>
life == <<handles, strong, deleted, channelResult, dropped>>
bridge == <<bqueue, queue2, wakers2, bqueueSent, bqueueRecv, sentLog2,
            recvLog2>>
context == <<callerIsTask, currentTaskHandle, maxWaitElapses>>
units == <<tickPeriod, overflowChecks, duration, made, unitsOut>>
blocking == <<clones, raw, bqueueDeleted, sentVia, recvVia, qop>>
timers == <<timer, owner, callback, timerQueue, tcall, dropPc, handleCopy>>
notification == <<notifyState, ncall>>
spawning == <<creator, closure, thread>>
rest == <<life, bridge, context, units, blocking, timers, notification,
         spawning>>
quiet == <<queue, wakers, notif, pc, op, taken, result, polls, nextItem,
           sentLog, recvLog, isrCalls, recvStarted, readySends, fut, owed,
           wakes, life, context>>
vars == <<queue, wakers, notif, pc, op, taken, result, polls, nextItem,
          sentLog, recvLog, isrCalls, recvStarted, readySends, fut, owed,
          wakes, callerIsTask, currentTaskHandle, maxWaitElapses, handles, strong, deleted,
          channelResult, bqueue, queue2, wakers2, bqueueSent, bqueueRecv,
          sentLog2, recvLog2, tickPeriod, overflowChecks, duration, made,
          unitsOut, clones, raw, bqueueDeleted, sentVia, recvVia, qop, timer,
          owner, callback, timerQueue, tcall, dropPc, handleCopy, notifyState,
          ncall, dropped, creator, closure, thread>>

\* ------------------------------------------------------- kernel queue
\* shim_xQueueCreate(max_size, item_size)
xQueueCreate(max_size) == [items |-> <<>>, uxLength |-> max_size]

uxQueueMessagesWaiting(q) == Len(q.items)

\* Mutant: the free slots are taken to be the capacity
uxQueueSpacesAvailableCapacity(q) == q.uxLength

uxQueueSpacesAvailable(q) == (q.uxLength - Len(q.items)) % UnsignedModulus

\* Mutant: the full check is off by one
QueueIsFullOffByOne(q) == Len(q.items) > q.uxLength

QueueIsFull(q) == Len(q.items) >= q.uxLength

\* Mutant: the item is put in front of the queue
xQueueSendToFront(q, item) == [q EXCEPT !.items = <<item>> \o @]

xQueueSendToBack(q, item) == [q EXCEPT !.items = Append(@, item)]

\* Mutant: the head item is copied out and stays in the queue
xQueuePeek(q) == q

xQueueReceive(q) == [q EXCEPT !.items = Tail(@)]

\* Queue::messages_waiting / Queue::spaces_available
messages_waiting == uxQueueMessagesWaiting(queue)
spaces_available == uxQueueSpacesAvailable(queue)

\* ------------------------------------------------------- notifications
\* Mutant: the notification value is overwritten, not incremented
TaskNotifyOverwrite(n, task) == [n EXCEPT ![task] = 1]

\* Task::notify(TaskNotification::Increment): xTaskNotify(handle, 0, eIncrement)
TaskNotifyIncrement(n, task) == [n EXCEPT ![task] = (@ + 1) % UnsignedModulus]

\* Mutant: the waker notifies without changing the notification value
WakerWakeNoAction(n, task) == n

\* waker::wake: the RawWaker vtable entry of the block_on_future waker
WakerWake(n, task) == TaskNotifyIncrement(n, task)

\* Mutant: a wake reaches only a task that is suspended in
\* take_notification
WakeOnlySuspended(task) ==
    /\ notif' = IF pc[task] = "suspended" THEN WakerWake(notif, task)
                ELSE notif
    /\ wakes' = [wakes EXCEPT ![task] = @ + 1]

\* waker.wake() on the waker of a task, counted until the task's next
\* take_notification
Wake(task) ==
    /\ notif' = WakerWake(notif, task)
    /\ wakes' = [wakes EXCEPT ![task] = @ + 1]

\* The kernel function waker::wake ends in
WakerWakeApi == "xTaskNotify"

\* Kernel functions that may be called from an interrupt
FromISRApis == {"xQueueSendToBackFromISR", "xTaskNotifyFromISR"}

\* ------------------------------------------------------- AtomicWaker
WAITING == {}
REGISTERING == "REGISTERING"
WAKING == "WAKING"

AtomicWakerDefault == [state |-> WAITING, waker |-> NoWaker]

\* ------------------------------------------------------- control flow
SendKinds == {"send_blocking", "send_from_isr", "send"}
ReceiveKinds == {"receive_blocking", "receive"}

\* The mailbox an operation registers its poller in
OwnWaker(kind) == IF kind \in SendKinds THEN "send_waker" ELSE "receive_waker"

\* Mutant: an operation notifies the mailbox of its own side
PeerWakerOwnSide(kind) ==
    IF kind \in SendKinds THEN "send_waker" ELSE "receive_waker"

\* The mailbox an operation notifies after it succeeded
PeerWaker(kind) == IF kind \in SendKinds THEN "receive_waker" ELSE "send_waker"

\* Mutant: the poll of a send reads spaces_available() with nothing
\* registered
FirstStepUnregistered(kind) ==
    CASE kind = "send" -> "spaces_available"
      [] kind = "receive" -> "queue_receive"
      [] OTHER -> "countdown_poll"

\* First step of a poll of the future block_on_future drives
FirstStep(kind) ==
    CASE kind = "send" -> "register_cas"
      [] kind = "receive" -> "queue_receive"
      [] OTHER -> "countdown_poll"

\* Where a poll goes on once AtomicWaker::register has returned
AfterRegister(kind) ==
    IF kind = "send" THEN "spaces_available" ELSE "take_notification"

\* What an operation returned: Ok(item) or Err(item), kept with the kind and
\* max_wait of the operation
NoResult == [kind |-> "none", wait |-> "zero", tag |-> "none", item |-> NoItem]
Ok(item) == [tag |-> "Ok", item |-> item]
Err(item) == [tag |-> "Err", item |-> item]

\* The value an operation returns when it succeeds
Success(o) == IF o.kind \in SendKinds THEN Ok(NoItem) ELSE Ok(o.item)

IdleOp == [kind |-> "none", item |-> NoItem, wait |-> "zero"]

\* ------------------------------------------------------- errors, handles
\* FreeRtosError
OutOfMemory == "OutOfMemory"
TaskNotFound == "TaskNotFound"

\* A null QueueHandle_t / TaskHandle_t
NullQueue == [items |-> <<>>, uxLength |-> 0]
NullHandle == "null"

\* Task::current() on the handle xTaskGetCurrentTaskHandle returned
TaskCurrent(handle) ==
    IF handle = NullHandle THEN Err(TaskNotFound) ELSE Ok(handle)

\* ------------------------------------------------------- units.rs
\* TickType_t is an unsigned integer of TickTypeBits bits
TickTypeModulus == 2^TickTypeBits
TickType == 0..(TickTypeModulus - 1)

portMAX_DELAY == TickTypeModulus - 1

\* Duration { ticks }
from_ticks(n) == [ticks |-> n]

from_msRoundsUp(milliseconds, period) ==
    from_ticks((milliseconds + period - 1) \div period)

\* Duration::from_ms: milliseconds / portTICK_PERIOD_MS()
from_ms(milliseconds, period) == from_ticks(milliseconds \div period)

infinite == from_ticks(portMAX_DELAY)

max == infinite

zero == from_ticks(0)

eps == from_ticks(1)

ticks(self) == self.ticks

\* A value returned, or the panic of an arithmetic overflow
Returns(value, overflowed) ==
    [tag |-> "Ok", value |-> value, overflowed |-> overflowed]
Panics == [tag |-> "panic", value |-> 0, overflowed |-> TRUE]

\* self.ticks * portTICK_PERIOD_MS() on TickType_t: a product that does not
\* fit panics in a build with overflow checks and wraps in one without
ms(self, period, checks) ==
    LET product == self.ticks * period
    IN  IF product < TickTypeModulus THEN Returns(product, FALSE)
        ELSE IF checks THEN Panics
        ELSE Returns(product % TickTypeModulus, TRUE)

NoCall == [kind |-> "none", tag |-> "none", value |-> 0,
           overflowed |-> FALSE]

\* No Duration is looked at
NoUnits ==
    /\ tickPeriod = 1
    /\ overflowChecks = TRUE
    /\ duration = zero
    /\ made = [ctor |-> "zero", arg |-> 0]
    /\ unitsOut = NoCall

\* No operation on a Queue<T> was made
NoQueueOp == [kind |-> "none", handle |-> 0, tag |-> "none",
              item |-> NoItem, before |-> <<>>]

\* Only the bridge tasks hold the blocking queue
NoBlocking ==
    /\ clones = {}
    /\ raw = FALSE
    /\ bqueueDeleted = 0
    /\ sentVia = <<>>
    /\ recvVia = <<>>
    /\ qop = NoQueueOp

\* FreeRtosError
ZeroDuration == "ZeroDuration"
Timeout == "Timeout"

\* No timer was created
NoTimer == [created |-> FALSE, freed |-> FALSE, active |-> FALSE,
            period |-> 0, autoReload |-> FALSE]
NoCallback == [boxed |-> FALSE, freed |-> 0, invoked |-> 0,
               usedAfterFree |-> FALSE, deletedFirst |-> TRUE]
NoTimerCall == [seq |-> 0, kind |-> "none", period |-> 0, tag |-> "none",
                err |-> "none", issued |-> {}]

NoTimers ==
    /\ timer = NoTimer
    /\ owner = "none"
    /\ callback = NoCallback
    /\ timerQueue = <<>>
    /\ tcall = NoTimerCall
    /\ dropPc = "idle"
    /\ handleCopy = FALSE

\* FreeRtosError
QueueFull == "QueueFull"

\* The kernel's record of a task's notification
NotificationState == {"not_waiting", "waiting", "received"}
Tcb(value, state) == [value |-> value, state |-> state]
NoNotifyCall == [api |-> "none", action |-> "none", arg |-> 0,
                 tag |-> "none", item |-> NoItem,
                 before |-> Tcb(0, "not_waiting"),
                 after |-> Tcb(0, "not_waiting")]

\* No Task::notify with an action other than Increment was made.
\* ulTaskNotifyTake and eIncrement do not read ucNotifyState, so the
\* waker and block_on_future do not depend on it
NoNotification ==
    /\ notifyState = "not_waiting"
    /\ ncall = NoNotifyCall

\* What the specifications of the channel leave alone
\* No task is being started
NoClosure == [kind |-> "none", captured |-> {}, boxed |-> FALSE,
              freed |-> 0, runs |-> 0]
NoCreator == [builder |-> "none", pc |-> "idle", started |-> "none",
              created |-> "none"]
NoSpawning ==
    /\ creator = NoCreator
    /\ closure = NoClosure
    /\ thread = "none"

InitOther == NoUnits /\ NoBlocking /\ NoTimers /\ NoNotification /\ NoSpawning

\* ------------------------------------------------------- initial state
\* The channel exists with its two handles: Arc::new(AsyncQueue),
\* AsyncQueueSender(queue.clone()), AsyncQueueReceiver(queue)
InitLife ==
    /\ handles = ChannelTasks
    /\ strong = Cardinality(ChannelTasks)
    /\ deleted = 0
    /\ channelResult = "Ok"
    /\ dropped = {}

\* Capacity of the queue and of the channels of the bridge tasks
BridgeCapacity == 1

\* The blocking queue and the second channel of the bridge tasks
InitBridge ==
    /\ bqueue = xQueueCreate(BridgeCapacity)
    /\ queue2 = xQueueCreate(BridgeCapacity)
    /\ wakers2 = [send_waker |-> AtomicWakerDefault,
                  receive_waker |-> AtomicWakerDefault]
    /\ bqueueSent = <<>>
    /\ bqueueRecv = <<>>
    /\ sentLog2 = <<>>
    /\ recvLog2 = <<>>

\* Everything but the channel, the notification values and the context
InitTasks ==
    /\ pc = [t \in Tasks |-> "idle"]
    /\ op = [t \in Tasks |-> IdleOp]
    /\ taken = [t \in Tasks |-> NoWaker]
    /\ result = [t \in Tasks |-> NoResult]
    /\ polls = [t \in Tasks |-> 0]
    /\ wakes = [t \in Tasks |-> 0]
    /\ nextItem = 1
    /\ sentLog = <<>>
    /\ recvLog = <<>>
    /\ isrCalls = {}
    /\ recvStarted = FALSE
    /\ readySends = 0
    /\ fut = [needed |-> 0, remaining |-> 0, value |-> NoItem]
    /\ owed = 0

\* channel(max_size): AsyncQueue::new and the two handles; block_on_future
\* runs in a task, a wait of Duration::max() never runs out
Init ==
    /\ InitLife
    /\ InitBridge
    /\ callerIsTask = TRUE
    /\ currentTaskHandle = DriverTask
    /\ maxWaitElapses = FALSE
    /\ \E c \in 1..MaxCapacity : queue = xQueueCreate(c)
    /\ wakers = [send_waker |-> AtomicWakerDefault,
                 receive_waker |-> AtomicWakerDefault]
    /\ notif = [t \in Tasks |-> 0]
    /\ InitTasks
    /\ InitOther

\* An operation returns to its caller
Return(t, r) ==
    /\ pc' = [pc EXCEPT ![t] = "idle"]
    /\ op' = [op EXCEPT ![t] = IdleOp]
    /\ result' = [result EXCEPT ![t] = [kind |-> op[t].kind, wait |-> op[t].wait,
                                        tag |-> r.tag, item |-> r.item]]

\* A step inside an operation
Goto(t, next) ==
    /\ pc' = [pc EXCEPT ![t] = next]
    /\ UNCHANGED <<op, result>>

\* max_wait can run out: a finite Duration does, Duration::max() does when
\* the kernel counts portMAX_DELAY ticks down instead of waiting for ever
TimesOut(wait) == wait = "finite" \/ (wait = "max" /\ maxWaitElapses)

\* ----------------------------------------------- starting an operation
Begin(t, kind, item, wait, first) ==
    /\ pc[t] = "idle"
    /\ op' = [op EXCEPT ![t] = [kind |-> kind, item |-> item, wait |-> wait]]
    /\ pc' = [pc EXCEPT ![t] = first]
    /\ result' = [result EXCEPT ![t] = NoResult]
    /\ taken' = [taken EXCEPT ![t] = NoWaker]

BeginSend(t, kind, wait, first) ==
    /\ t = SenderTask
    /\ t \in handles
    /\ nextItem <= MaxItems
    /\ Begin(t, kind, Some(nextItem), wait, first)
    /\ nextItem' = nextItem + 1
    /\ UNCHANGED <<chan, notif, ghost, drive, rest, wakes>>

\* AsyncQueueSender::send_blocking(item, max_wait)
StartSendBlocking(t) ==
    \E w \in Waits :
        /\ BeginSend(t, "send_blocking", w, "queue_send")
        /\ polls' = [polls EXCEPT ![t] = 0]

\* AsyncQueueSender::send_from_isr(context, item)
StartSendFromIsr(t) ==
    /\ BeginSend(t, "send_from_isr", "zero", "queue_send_from_isr")
    /\ polls' = [polls EXCEPT ![t] = 0]

\* block_on_future(sender.send(item)): the first poll starts
StartSend(t) ==
    /\ BeginSend(t, "send", "zero", FirstStep("send"))
    /\ polls' = [polls EXCEPT ![t] = 1]

BeginReceive(t, kind, wait, first) ==
    /\ t = ReceiverTask
    /\ t \in handles
    /\ Begin(t, kind, NoItem, wait, first)
    /\ recvStarted' = TRUE
    /\ UNCHANGED <<chan, notif, nextItem, sentLog, recvLog, isrCalls,
                   readySends, drive, rest, wakes>>

\* AsyncQueueReceiver::receive_blocking(max_wait)
StartReceiveBlocking(t) ==
    \E w \in Waits :
        /\ BeginReceive(t, "receive_blocking", w, "queue_receive")
        /\ polls' = [polls EXCEPT ![t] = 0]

\* block_on_future(receiver.receive()): the first poll starts
StartReceive(t) ==
    /\ BeginReceive(t, "receive", "zero", FirstStep("receive"))
    /\ polls' = [polls EXCEPT ![t] = 1]

\* ------------------------------------------------------- Queue::send
\* Mutant: the caller goes on to receive_waker.wake() whatever the result
SendFailedWakes(t) == Goto(t, "wake_fetch_or")

\* What the caller of Queue::send does with Err(item): send_blocking hands it
\* back, the pollable send panics (unreachable!)
SendFailed(t) ==
    IF op[t].kind = "send"
    THEN Goto(t, "unreachable")
    ELSE Return(t, Err(op[t].item))

\* Mutant: the item enters the queue and is handed back in Err as well
EnqueueAndReturn(t) ==
    /\ queue' = xQueueSendToBack(queue, op[t].item[1])
    /\ sentLog' = Append(sentLog, op[t].item[1])
    /\ Return(t, Err(op[t].item))

\* The item enters the queue and the caller goes on to receive_waker.wake()
Enqueue(t) ==
    /\ queue' = xQueueSendToBack(queue, op[t].item[1])
    /\ sentLog' = Append(sentLog, op[t].item[1])
    /\ Goto(t, "wake_fetch_or")

\* Queue::send(item, max_wait): xQueueSendToBack finds room, fails at once
\* with a zero max_wait, or blocks the task
QueueSend(t) ==
    /\ pc[t] = "queue_send"
    /\ IF ~QueueIsFull(queue)
       THEN Enqueue(t)
       ELSE /\ IF op[t].wait = "zero"
               THEN SendFailed(t)
               ELSE Goto(t, "queue_send_blocked")
            /\ UNCHANGED <<queue, sentLog>>
    /\ UNCHANGED <<wakers, notif, taken, polls, nextItem, recvLog, isrCalls,
                   recvStarted, readySends, drive, rest, wakes>>

\* A task blocked in xQueueSendToBack is resumed when a slot is free
QueueSendUnblock(t) ==
    /\ pc[t] = "queue_send_blocked"
    /\ ~QueueIsFull(queue)
    /\ Enqueue(t)
    /\ UNCHANGED <<wakers, notif, taken, polls, nextItem, recvLog, isrCalls,
                   recvStarted, readySends, drive, rest, wakes>>

\* max_wait elapses while the queue is still full: Err(item)
QueueSendTimeout(t) ==
    /\ pc[t] = "queue_send_blocked"
    /\ TimesOut(op[t].wait)
    /\ QueueIsFull(queue)
    /\ SendFailed(t)
    /\ UNCHANGED <<chan, notif, taken, polls, nextItem, ghost, drive, rest, wakes>>

\* Mutant: send_from_isr wakes the receive mailbox whatever the result
QueueSendFromIsrWakes(t) ==
    /\ pc[t] = "queue_send_from_isr"
    /\ isrCalls' = isrCalls \cup {"xQueueSendToBackFromISR"}
    /\ IF uxQueueMessagesWaiting(queue) < queue.uxLength
       THEN /\ queue' = [queue EXCEPT !.items = Append(@, op[t].item[1])]
            /\ sentLog' = Append(sentLog, op[t].item[1])
       ELSE UNCHANGED <<queue, sentLog>>
    /\ Goto(t, "wake_fetch_or")
    /\ UNCHANGED <<wakers, notif, taken, polls, nextItem, recvLog,
                   recvStarted, readySends, drive, rest, wakes>>

\* Queue::send_from_isr(context, item): xQueueSendToBackFromISR never waits
QueueSendFromIsr(t) ==
    /\ pc[t] = "queue_send_from_isr"
    /\ isrCalls' = isrCalls \cup {"xQueueSendToBackFromISR"}
    /\ IF ~QueueIsFull(queue)
       THEN Enqueue(t)
       ELSE /\ Return(t, Err(op[t].item))
            /\ UNCHANGED <<queue, sentLog>>
    /\ UNCHANGED <<wakers, notif, taken, polls, nextItem, recvLog,
                   recvStarted, readySends, drive, rest, wakes>>

\* ------------------------------------------------------- Queue::receive
\* Mutant: the caller goes on to send_waker.wake() whatever the result
ReceiveFailedWakes(t) == Goto(t, "wake_fetch_or")

\* What the caller of Queue::receive does with Err(QueueReceiveTimeout):
\* receive_blocking returns it, the pollable receive registers its waker
ReceiveFailed(t) ==
    IF op[t].kind = "receive"
    THEN Goto(t, "register_cas")
    ELSE Return(t, Err(NoItem))

\* Mutant: the caller goes on to send_waker.wake() with the item still in
\* the queue
DequeueLater(t) ==
    /\ UNCHANGED <<queue, recvLog>>
    /\ op' = [op EXCEPT ![t].item = Some(Head(queue.items))]
    /\ pc' = [pc EXCEPT ![t] = "wake_fetch_or"]
    /\ UNCHANGED result

\* The head item leaves the queue and the caller goes on to send_waker.wake()
Dequeue(t) ==
    /\ queue' = xQueueReceive(queue)
    /\ recvLog' = Append(recvLog, Head(queue.items))
    /\ op' = [op EXCEPT ![t].item = Some(Head(queue.items))]
    /\ pc' = [pc EXCEPT ![t] = "wake_fetch_or"]
    /\ UNCHANGED result

\* Queue::receive(max_wait)
QueueReceive(t) ==
    /\ pc[t] = "queue_receive"
    /\ IF uxQueueMessagesWaiting(queue) > 0
       THEN Dequeue(t)
       ELSE /\ IF op[t].wait = "zero"
               THEN ReceiveFailed(t)
               ELSE Goto(t, "queue_receive_blocked")
            /\ UNCHANGED <<queue, recvLog>>
    /\ UNCHANGED <<wakers, notif, taken, polls, nextItem, sentLog, isrCalls,
                   recvStarted, readySends, drive, rest, wakes>>

\* A task blocked in xQueueReceive is resumed when an item is there
QueueReceiveUnblock(t) ==
    /\ pc[t] = "queue_receive_blocked"
    /\ uxQueueMessagesWaiting(queue) > 0
    /\ Dequeue(t)
    /\ UNCHANGED <<wakers, notif, taken, polls, nextItem, sentLog, isrCalls,
                   recvStarted, readySends, drive, rest, wakes>>

\* max_wait elapses while the queue is still empty
QueueReceiveTimeout(t) ==
    /\ pc[t] = "queue_receive_blocked"
    /\ TimesOut(op[t].wait)
    /\ uxQueueMessagesWaiting(queue) = 0
    /\ ReceiveFailed(t)
    /\ UNCHANGED <<chan, notif, taken, polls, nextItem, ghost, drive, rest, wakes>>

\* The operation succeeded: its wake of the peer mailbox is over and it
\* returns Ok (block_on_future breaks out of its loop with the value)
Finish(t) ==
    /\ Return(t, Success(op[t]))
    /\ readySends' = IF op[t].kind = "send" THEN readySends + 1 ELSE readySends

\* ------------------------------------------------------- AtomicWaker::wake
\* take(): state.fetch_or(WAKING); only from WAITING the caller owns the cell
WakeFetchOr(t) ==
    /\ pc[t] = "wake_fetch_or"
    /\ LET m == PeerWaker(op[t].kind) IN
        /\ wakers' = [wakers EXCEPT ![m].state = @ \cup {WAKING}]
        /\ IF wakers[m].state = WAITING
           THEN Goto(t, "wake_take") /\ UNCHANGED readySends
           ELSE Finish(t)
    /\ taken' = [taken EXCEPT ![t] = NoWaker]
    /\ UNCHANGED <<queue, notif, polls, nextItem, sentLog, recvLog,
                   isrCalls, recvStarted, drive, rest, wakes>>

\* Mutant: take() leaves a copy of the waker in the cell
WakeTakeLeaves(t) ==
    /\ pc[t] = "wake_take"
    /\ LET m == PeerWaker(op[t].kind) IN
        /\ wakers' = [wakers EXCEPT ![m] =
                         [state |-> @.state \ {WAKING}, waker |-> @.waker]]
        /\ taken' = [taken EXCEPT ![t] = wakers[m].waker]
        /\ IF wakers[m].waker = NoWaker
           THEN Finish(t)
           ELSE Goto(t, "wake_notify") /\ UNCHANGED readySends
    /\ UNCHANGED <<queue, notif, polls, nextItem, sentLog, recvLog,
                   isrCalls, recvStarted, drive, rest, wakes>>

\* take(): the waker leaves the cell, state.fetch_and(!WAKING)
WakeTake(t) ==
    /\ pc[t] = "wake_take"
    /\ LET m == PeerWaker(op[t].kind) IN
        /\ wakers' = [wakers EXCEPT ![m] =
                         [state |-> @.state \ {WAKING}, waker |-> NoWaker]]
        /\ taken' = [taken EXCEPT ![t] = wakers[m].waker]
        /\ IF wakers[m].waker = NoWaker
           THEN Finish(t)
           ELSE Goto(t, "wake_notify") /\ UNCHANGED readySends
    /\ UNCHANGED <<queue, notif, polls, nextItem, sentLog, recvLog,
                   isrCalls, recvStarted, drive, rest, wakes>>

\* wake(): waker.wake() on the waker that was taken
WakeNotify(t) ==
    /\ pc[t] = "wake_notify"
    /\ Wake(taken[t])
    /\ isrCalls' = IF op[t].kind = "send_from_isr"
                    THEN isrCalls \cup {WakerWakeApi}
                    ELSE isrCalls
    /\ Finish(t)
    /\ UNCHANGED <<chan, taken, polls, nextItem, sentLog, recvLog, recvStarted,
                   drive, rest>>

\* --------------------------------------------------- AtomicWaker::register
\* state.compare_exchange(WAITING, REGISTERING); during a concurrent wake
\* (WAKING) the new waker is woken at once (wake_by_ref)
RegisterCas(t) ==
    /\ pc[t] = "register_cas"
    /\ LET m == OwnWaker(op[t].kind) IN
        CASE wakers[m].state = WAITING ->
                /\ wakers' = [wakers EXCEPT ![m].state = {REGISTERING}]
                /\ Goto(t, "register_store")
                /\ UNCHANGED <<notif, wakes>>
          [] wakers[m].state = {WAKING} ->
                /\ Wake(t)
                /\ Goto(t, AfterRegister(op[t].kind))
                /\ UNCHANGED wakers
          [] OTHER ->
                /\ Goto(t, AfterRegister(op[t].kind))
                /\ UNCHANGED <<wakers, notif, wakes>>
    /\ taken' = [taken EXCEPT ![t] = NoWaker]
    /\ UNCHANGED <<queue, polls, nextItem, ghost, drive, rest>>

\* Mutant: the failed exchange is ignored
RegisterStoreIgnoresWake(t) ==
    /\ pc[t] = "register_store"
    /\ wakers' = [wakers EXCEPT ![OwnWaker(op[t].kind)] =
                     [state |-> IF @.state = {REGISTERING} THEN WAITING
                                ELSE @.state,
                      waker |-> t]]
    /\ Goto(t, AfterRegister(op[t].kind))
    /\ UNCHANGED <<queue, notif, taken, polls, nextItem, sentLog, recvLog,
                   isrCalls, recvStarted, readySends, fut, owed, rest, wakes>>

\* Mutant: a waker already in the cell is kept
RegisterStoreKeepsOld(t) ==
    /\ pc[t] = "register_store"
    /\ LET m == OwnWaker(op[t].kind) IN
        IF wakers[m].state = {REGISTERING}
        THEN /\ wakers' = [wakers EXCEPT ![m] =
                              [state |-> WAITING, waker |-> IF @.waker = NoWaker THEN t ELSE @.waker]]
             /\ Goto(t, AfterRegister(op[t].kind))
        ELSE /\ wakers' = [wakers EXCEPT ![m].waker = IF @ = NoWaker THEN t ELSE @]
             /\ Goto(t, "register_take")
    /\ UNCHANGED <<queue, notif, taken, polls, nextItem, ghost, drive, rest, wakes>>

\* The waker is stored in the cell, then
\* state.compare_exchange(REGISTERING, WAITING) releases it; the exchange
\* fails when a wake came in between (REGISTERING | WAKING)
RegisterStore(t) ==
    /\ pc[t] = "register_store"
    /\ LET m == OwnWaker(op[t].kind) IN
        IF wakers[m].state = {REGISTERING}
        THEN /\ wakers' = [wakers EXCEPT ![m] =
                              [state |-> WAITING, waker |-> t]]
             /\ Goto(t, AfterRegister(op[t].kind))
        ELSE /\ wakers' = [wakers EXCEPT ![m].waker = t]
             /\ Goto(t, "register_take")
    /\ UNCHANGED <<queue, notif, taken, polls, nextItem, ghost, drive, rest, wakes>>

\* After the failed exchange: the waker is taken back out of the cell and
\* state.swap(WAITING)
RegisterTake(t) ==
    /\ pc[t] = "register_take"
    /\ LET m == OwnWaker(op[t].kind) IN
        /\ taken' = [taken EXCEPT ![t] = wakers[m].waker]
        /\ wakers' = [wakers EXCEPT ![m] =
                         [state |-> WAITING, waker |-> NoWaker]]
    /\ Goto(t, "register_wake")
    /\ UNCHANGED <<queue, notif, polls, nextItem, ghost, drive, rest, wakes>>

\* ... and woken: waker.wake()
RegisterWake(t) ==
    /\ pc[t] = "register_wake"
    /\ Wake(taken[t])
    /\ Goto(t, AfterRegister(op[t].kind))
    /\ UNCHANGED <<chan, taken, polls, nextItem, ghost, drive, rest>>

\* Mutant: poll_ready resolves without looking at spaces_available()
SpacesAvailableUnchecked(t) ==
    /\ pc[t] = "spaces_available"
    /\ pc' = [pc EXCEPT ![t] = "queue_send"]
    /\ UNCHANGED <<queue, wakers, notif, op, result, taken, polls, nextItem,
                   sentLog, recvLog, isrCalls, recvStarted, readySends, fut,
                   owed, rest, wakes>>

\* --------------------------------------------- AsyncQueueSender::poll_ready
\* After send_waker.register: spaces_available() == 0 is Poll::Pending,
\* otherwise send goes on with queue.send(item, Duration::zero())
SpacesAvailable(t) ==
    /\ pc[t] = "spaces_available"
    /\ IF spaces_available = 0
       THEN Goto(t, "take_notification")
       ELSE Goto(t, "queue_send")
    /\ UNCHANGED <<chan, notif, taken, polls, nextItem, ghost, drive, rest, wakes>>

\* ------------------------------------------------------- block_on_future
\* Mutant: take_notification returns whatever the notification value
TakeNotificationSpins(t) ==
    /\ pc[t] = "take_notification"
    /\ notif' = [notif EXCEPT ![t] = 0]
    /\ wakes' = [wakes EXCEPT ![t] = 0]
    /\ polls' = [polls EXCEPT ![t] = IF @ <= MaxPolls THEN @ + 1 ELSE @]
    /\ Goto(t, FirstStep(op[t].kind))
    /\ UNCHANGED <<chan, taken, nextItem, ghost, drive, rest>>

\* Mutant: take_notification(false, ..) takes one off the value
TakeNotificationDecrements(t) ==
    /\ pc[t] = "take_notification"
    /\ notif[t] > 0
    /\ notif' = [notif EXCEPT ![t] = @ - 1]
    /\ wakes' = [wakes EXCEPT ![t] = 0]
    /\ polls' = [polls EXCEPT ![t] = IF @ <= MaxPolls THEN @ + 1 ELSE @]
    /\ Goto(t, FirstStep(op[t].kind))
    /\ UNCHANGED <<chan, taken, nextItem, ghost, drive, rest>>

\* The poll returned Poll::Pending: CurrentTask::take_notification(true,
\* Duration::max()) suspends the task while its notification value is zero,
\* clears the value, and the loop polls the future again
TakeNotification(t) ==
    /\ pc[t] = "take_notification"
    /\ notif[t] > 0
    /\ notif' = [notif EXCEPT ![t] = 0]
    /\ wakes' = [wakes EXCEPT ![t] = 0]
    /\ polls' = [polls EXCEPT ![t] = IF @ <= MaxPolls THEN @ + 1 ELSE @]
    /\ Goto(t, FirstStep(op[t].kind))
    /\ UNCHANGED <<chan, taken, nextItem, ghost, drive, rest>>

\* ------------------------------------------- a future that counts its polls
\* block_on_future(future) on the driver task, future being ready on its
\* k-th poll with value v; Task::current().expect(..) panics before the
\* first poll when there is no current task
StartBlockOn(t) ==
    /\ t = DriverTask
    /\ fut.value = NoItem
    /\ pc[t] = "idle"
    /\ IF TaskCurrent(currentTaskHandle).tag = "Err"
       THEN /\ pc' = [pc EXCEPT ![t] = "panicked"]
            /\ UNCHANGED <<fut, op, result, taken, polls>>
       ELSE /\ \E k \in 1..MaxPolls, v \in 1..MaxValue :
                  fut' = [needed |-> k, remaining |-> k - 1,
                          value |-> Some(v)]
            /\ Begin(t, "countdown", NoItem, "zero", FirstStep("countdown"))
            /\ polls' = [polls EXCEPT ![t] = 1]
    /\ UNCHANGED <<chan, notif, nextItem, ghost, owed, rest, wakes>>

\* future.as_mut().poll(&mut context): Poll::Ready(value) breaks the loop,
\* Poll::Pending leaves the waker with the source that will signal it
CountdownPoll(t) ==
    /\ pc[t] = "countdown_poll"
    /\ IF fut.remaining = 0
       THEN /\ Return(t, Ok(fut.value))
            /\ UNCHANGED <<fut, owed>>
       ELSE /\ fut' = [fut EXCEPT !.remaining = @ - 1]
            /\ owed' = owed + 1
            /\ Goto(t, "take_notification")
    /\ UNCHANGED <<chan, notif, taken, polls, nextItem, ghost, rest, wakes>>

\* The external source signals the driver's waker: waker::wake
ExternalWake ==
    /\ owed > 0
    /\ owed' = owed - 1
    /\ Wake(DriverTask)
    /\ UNCHANGED <<chan, pc, op, taken, result, polls, nextItem, ghost, fut,
                   rest>>

\* ------------------------------------------------------- specifications
SenderStep(t) ==
    \/ StartSendBlocking(t)
    \/ StartSendFromIsr(t)
    \/ StartSend(t)
    \/ QueueSend(t)
    \/ QueueSendUnblock(t)
    \/ QueueSendTimeout(t)
    \/ QueueSendFromIsr(t)
    \/ SpacesAvailable(t)

ReceiverStep(t) ==
    \/ StartReceiveBlocking(t)
    \/ StartReceive(t)
    \/ QueueReceive(t)
    \/ QueueReceiveUnblock(t)
    \/ QueueReceiveTimeout(t)

WakerStep(t) ==
    \/ WakeFetchOr(t)
    \/ WakeTake(t)
    \/ WakeNotify(t)
    \/ RegisterCas(t)
    \/ RegisterStore(t)
    \/ RegisterTake(t)
    \/ RegisterWake(t)
    \/ TakeNotification(t)

\* A step of a task: of the sender handle's owner, of the receiver handle's
\* owner, or inside a mailbox or block_on_future
TaskStep(t) ==
    \/ SenderStep(t)
    \/ ReceiverStep(t)
    \/ WakerStep(t)

\* One sender and one receiver on one channel
Next == \E t \in ChannelTasks : TaskStep(t)

Spec == Init /\ [][Next]_vars

\* The kernel runs every task that can run
FairSpec == Spec /\ \A t \in ChannelTasks : WF_vars(TaskStep(t))

\* The sender sends with the pollable send only; the receiver uses both of
\* its receives
PollableSendStep(t) ==
    \/ StartSend(t)
    \/ SpacesAvailable(t)
    \/ QueueSend(t)

PollableTaskStep(t) ==
    \/ PollableSendStep(t)
    \/ ReceiverStep(t)
    \/ WakerStep(t)

NextPollable == \E t \in ChannelTasks : PollableTaskStep(t)

SpecPollable == Init /\ [][NextPollable]_vars

FairSpecPollable ==
    SpecPollable /\ \A t \in ChannelTasks : WF_vars(PollableTaskStep(t))

\* block_on_future on a task whose notification value may be stale
InitDrive ==
    /\ InitLife
    /\ InitBridge
    /\ callerIsTask = TRUE
    /\ currentTaskHandle = DriverTask
    /\ maxWaitElapses = FALSE
    /\ queue = xQueueCreate(1)
    /\ wakers = [send_waker |-> AtomicWakerDefault,
                 receive_waker |-> AtomicWakerDefault]
    /\ \E n \in 0..MaxStale : notif = [t \in Tasks |->
                                        IF t = DriverTask THEN n ELSE 0]
    /\ InitTasks
    /\ InitOther

DriverStep ==
    \/ StartBlockOn(DriverTask)
    \/ CountdownPoll(DriverTask)
    \/ TakeNotification(DriverTask)

NextDrive == DriverStep \/ ExternalWake

SpecDrive == InitDrive /\ [][NextDrive]_vars

FairSpecDrive == SpecDrive /\ WF_vars(DriverStep) /\ WF_vars(ExternalWake)

\* xTaskGetCurrentTaskHandle: the kernel's current task. To a caller that
\* is no task (the thread that will start the scheduler, a thread outside
\* FreeRTOS) it is null as long as no task was created, and after that the
\* task the kernel holds as current
CurrentTaskHandles(isTask) ==
    IF isTask THEN {DriverTask} ELSE {NullHandle, DriverTask}

\* block_on_future called in a task or outside of every task
InitAnyContext ==
    /\ InitLife
    /\ InitBridge
    /\ callerIsTask \in BOOLEAN
    /\ currentTaskHandle \in CurrentTaskHandles(callerIsTask)
    /\ maxWaitElapses = FALSE
    /\ queue = xQueueCreate(1)
    /\ wakers = [send_waker |-> AtomicWakerDefault,
                 receive_waker |-> AtomicWakerDefault]
    /\ \E n \in 0..MaxStale : notif = [t \in Tasks |->
                                        IF t = DriverTask THEN n ELSE 0]
    /\ InitTasks
    /\ InitOther

SpecAnyContext == InitAnyContext /\ [][NextDrive]_vars

\* ------------------------------------------------- lifetime of a channel
\* Mutant: a null handle is wrapped like any other
QueueNewUnchecked(handle) == Ok(handle)

\* Queue::new on the handle shim_xQueueCreate returned
QueueNew(handle) ==
    IF handle = NullQueue THEN Err(OutOfMemory) ELSE Ok(handle)

\* Mutant: the handles derive Clone as well
HandleDerivesClone == {"Debug", "Clone"}

\* What AsyncQueueSender and AsyncQueueReceiver derive
HandleDerives == {"Debug"}

\* Mutant: every owner that goes away drops the AsyncQueue
IsLastOwnerAlways(count) == TRUE

\* Drop of an Arc: the owner whose drop takes the strong count to zero drops
\* the value
IsLastOwner(count) == count - 1 = 0

\* channel(max_size): AsyncQueue::new(max_size)? returns the error of
\* Queue::new before an AsyncQueue exists; otherwise Arc::new, queue.clone()
\* for the sender, and the Arc itself for the receiver
Channel ==
    /\ channelResult = "none"
    /\ \E max_size \in 1..MaxCapacity :
         \E handle \in {xQueueCreate(max_size), NullQueue} :
            LET created == QueueNew(handle) IN
            IF created.tag = "Err"
            THEN /\ channelResult' = created.item
                 /\ UNCHANGED <<queue, handles, strong>>
            ELSE /\ channelResult' = "Ok"
                 /\ queue' = created.item
                 /\ handles' = ChannelTasks
                 /\ strong' = Cardinality(ChannelTasks)
    /\ UNCHANGED <<wakers, notif, pc, op, taken, result, polls, nextItem,
                   ghost, drive, wakes, deleted, dropped, bridge, context,
                   units, blocking, timers, notification, spawning>>

\* Duplicating the handle of task t, as the derived Clone of a tuple struct
\* around an Arc would do it; no Next has this step
CloneHandle(t) ==
    /\ "Clone" \in HandleDerives
    /\ t \in handles
    /\ strong' = strong + 1
    /\ UNCHANGED <<chan, notif, pc, op, taken, result, polls, nextItem,
                   ghost, drive, wakes, handles, deleted, channelResult,
                   dropped,
                   bridge, context,
                   units, blocking, timers, notification, spawning>>

\* Mutant: the last owner drops the items that are in the queue as well
AsyncQueueDropItems(count, items) ==
    IF IsLastOwner(count) THEN dropped \cup {items[i] : i \in 1..Len(items)}
    ELSE dropped

\* Drop for AsyncQueue is vQueueDelete(self.queue.handle) and nothing else:
\* the kernel frees the storage, no destructor of an item in it runs
AsyncQueueDrop(count, items) == dropped

\* The owner of a handle drops it while no call borrows it: the Arc's strong
\* count goes down by one and the last owner runs Drop for AsyncQueue,
\* vQueueDelete(self.queue.handle)
DropHandle(t) ==
    /\ t \in handles
    /\ pc[t] = "idle"
    /\ handles' = handles \ {t}
    /\ strong' = strong - 1
    /\ deleted' = IF IsLastOwner(strong) THEN deleted + 1 ELSE deleted
    /\ dropped' = AsyncQueueDrop(strong, queue.items)
    /\ UNCHANGED <<chan, notif, pc, op, taken, result, polls, nextItem,
                   ghost, drive, wakes, channelResult, bridge, context,
                   units, blocking, timers, notification, spawning>>

\* Before channel(max_size) is called
InitNoChannel ==
    /\ queue = NullQueue
    /\ wakers = [send_waker |-> AtomicWakerDefault,
                 receive_waker |-> AtomicWakerDefault]
    /\ notif = [t \in Tasks |-> 0]
    /\ InitTasks
    /\ InitOther
    /\ InitBridge
    /\ callerIsTask = TRUE
    /\ currentTaskHandle = DriverTask
    /\ maxWaitElapses = FALSE
    /\ handles = {}
    /\ strong = 0
    /\ deleted = 0
    /\ channelResult = "none"
    /\ dropped = {}

\* The owners of the two handles use them without blocking for ever on the
\* other's behalf (send_from_isr, receive_blocking) and drop them
LifetimeStep(t) ==
    \/ StartSendFromIsr(t)
    \/ QueueSendFromIsr(t)
    \/ StartReceiveBlocking(t)
    \/ QueueReceive(t)
    \/ QueueReceiveUnblock(t)
    \/ QueueReceiveTimeout(t)
    \/ WakeFetchOr(t)
    \/ WakeTake(t)
    \/ DropHandle(t)

NextLifetime == Channel \/ \E t \in ChannelTasks : LifetimeStep(t)

SpecLifetime == InitNoChannel /\ [][NextLifetime]_vars

\* ------------------------------------------------------- bridge tasks
\* The AsyncToBlocking task runs on ReceiverTask, the owner of the receiver
\* of the first channel (queue, wakers); the BlockingToAsync task owns the
\* sender of the second channel (queue2, wakers2); bqueue is the Queue<T>
\* both builders were given.
AsyncToBlockingTask == ReceiverTask

\* Mutant: the loop never goes on to the send
HoldsDataNever(t) == FALSE

\* `data` of the task's loop is set: the receive returned Ok(data), or the
\* send returned Err(saved_data)
HoldsData(t) == result[t].item # NoItem

\* Mutant: a failed send hands nothing back
SavedDataLost(o) == NoItem

\* The item a failed send hands back in Err
SavedData(o) == o.item

\* A task calls Queue::send(data, Duration::max()) on bqueue
BeginQueueSend(t) ==
    /\ pc[t] = "idle"
    /\ HoldsData(t)
    /\ op' = [op EXCEPT ![t] = [kind |-> "queue_send", item |-> result[t].item,
                                wait |-> "max"]]
    /\ pc' = [pc EXCEPT ![t] = "bqueue_send"]
    /\ result' = [result EXCEPT ![t] = NoResult]

\* Mutant: the loop receives again while it still has data to send
BeginQueueReceiveAgain(t) ==
    /\ pc[t] = "idle"
    /\ op' = [op EXCEPT ![t] = [kind |-> "queue_receive", item |-> NoItem,
                                wait |-> "max"]]
    /\ pc' = [pc EXCEPT ![t] = "bqueue_receive"]
    /\ result' = [result EXCEPT ![t] = NoResult]

\* A task calls Queue::receive(Duration::max()) on bqueue
BeginQueueReceive(t) ==
    /\ pc[t] = "idle"
    /\ ~HoldsData(t)
    /\ op' = [op EXCEPT ![t] = [kind |-> "queue_receive", item |-> NoItem,
                                wait |-> "max"]]
    /\ pc' = [pc EXCEPT ![t] = "bqueue_receive"]
    /\ result' = [result EXCEPT ![t] = NoResult]

\* AsyncToBlocking loop: receiver.receive_blocking(duration)
AsyncToBlockingReceive(t) ==
    /\ t = AsyncToBlockingTask
    /\ ~HoldsData(t)
    /\ BeginReceive(t, "receive_blocking", "max", "queue_receive")
    /\ UNCHANGED polls

\* AsyncToBlocking loop: self.queue.send(data, duration), the first time and
\* again with the saved data after Err
AsyncToBlockingSend(t) ==
    /\ t = AsyncToBlockingTask
    /\ BeginQueueSend(t)
    /\ UNCHANGED <<chan, notif, taken, polls, nextItem, ghost, drive, rest,
                   wakes>>

\* Queue::send on bqueue
QueueSendBridge(t) ==
    /\ pc[t] \in {"bqueue_send", "bqueue_send_blocked"}
    /\ IF ~QueueIsFull(bqueue)
       THEN /\ bqueue' = xQueueSendToBack(bqueue, op[t].item[1])
            /\ bqueueSent' = Append(bqueueSent, op[t].item[1])
            /\ Return(t, Ok(NoItem))
       ELSE /\ pc[t] = "bqueue_send"
            /\ Goto(t, "bqueue_send_blocked")
            /\ UNCHANGED <<bqueue, bqueueSent>>
    /\ UNCHANGED <<chan, notif, taken, polls, nextItem, ghost, drive, wakes,
                   life, context, queue2, wakers2, bqueueRecv, sentLog2,
                   recvLog2,
                   units, blocking, timers, notification, spawning>>

\* max_wait elapses while bqueue is still full: Err(item)
QueueSendBridgeTimeout(t) ==
    /\ pc[t] = "bqueue_send_blocked"
    /\ TimesOut(op[t].wait)
    /\ QueueIsFull(bqueue)
    /\ Return(t, Err(SavedData(op[t])))
    /\ UNCHANGED <<chan, notif, taken, polls, nextItem, ghost, drive, rest,
                   wakes>>

\* BlockingToAsync loop: self.queue.receive(duration)
BlockingToAsyncReceive(t) ==
    /\ t = BlockingToAsyncTask
    /\ BeginQueueReceive(t)
    /\ UNCHANGED <<chan, notif, taken, polls, nextItem, ghost, drive, rest,
                   wakes>>

\* Queue::receive on bqueue
QueueReceiveBridge(t) ==
    /\ pc[t] \in {"bqueue_receive", "bqueue_receive_blocked"}
    /\ IF uxQueueMessagesWaiting(bqueue) > 0
       THEN /\ bqueue' = xQueueReceive(bqueue)
            /\ bqueueRecv' = Append(bqueueRecv, Head(bqueue.items))
            /\ Return(t, Ok(Some(Head(bqueue.items))))
       ELSE /\ pc[t] = "bqueue_receive"
            /\ Goto(t, "bqueue_receive_blocked")
            /\ UNCHANGED <<bqueue, bqueueRecv>>
    /\ UNCHANGED <<chan, notif, taken, polls, nextItem, ghost, drive, wakes,
                   life, context, queue2, wakers2, bqueueSent, sentLog2,
                   recvLog2,
                   units, blocking, timers, notification, spawning>>

\* max_wait elapses while bqueue is still empty: Err(QueueReceiveTimeout)
QueueReceiveBridgeTimeout(t) ==
    /\ pc[t] = "bqueue_receive_blocked"
    /\ TimesOut(op[t].wait)
    /\ uxQueueMessagesWaiting(bqueue) = 0
    /\ Return(t, Err(NoItem))
    /\ UNCHANGED <<chan, notif, taken, polls, nextItem, ghost, drive, rest,
                   wakes>>

\* BlockingToAsync loop: sender.send_blocking(data, duration), the first
\* time and again with the saved data after Err
BlockingToAsyncSend(t) ==
    /\ t = BlockingToAsyncTask
    /\ pc[t] = "idle"
    /\ HoldsData(t)
    /\ op' = [op EXCEPT ![t] = [kind |-> "send_blocking",
                                item |-> result[t].item, wait |-> "max"]]
    /\ pc' = [pc EXCEPT ![t] = "queue2_send"]
    /\ result' = [result EXCEPT ![t] = NoResult]
    /\ UNCHANGED <<chan, notif, taken, polls, nextItem, ghost, drive, rest,
                   wakes>>

\* The caller of the receiver of the second channel drains it:
\* receiver.receive_blocking(Duration::max())
ConsumerDrain(t) ==
    /\ t = ConsumerTask
    /\ pc[t] = "idle"
    /\ op' = [op EXCEPT ![t] = [kind |-> "receive_blocking",
                                item |-> NoItem, wait |-> "max"]]
    /\ pc' = [pc EXCEPT ![t] = "queue2_receive"]
    /\ result' = [result EXCEPT ![t] = NoResult]
    /\ UNCHANGED <<chan, notif, taken, polls, nextItem, ghost, drive, rest,
                   wakes>>

\* A producer that sends with send_blocking(item, Duration::max())
ProducerSendMax(t) ==
    /\ nextItem <= MaxChainItems
    /\ BeginSend(t, "send_blocking", "max", "queue_send")
    /\ polls' = [polls EXCEPT ![t] = 0]

\* AsyncQueueSender::send_blocking on the second channel: Queue::send, then
\* receive_waker.wake()
QueueSend2(t) ==
    /\ pc[t] \in {"queue2_send", "queue2_send_blocked"}
    /\ IF ~QueueIsFull(queue2)
       THEN /\ queue2' = xQueueSendToBack(queue2, op[t].item[1])
            /\ sentLog2' = Append(sentLog2, op[t].item[1])
            /\ Goto(t, "wake2_fetch_or")
       ELSE /\ pc[t] = "queue2_send"
            /\ IF op[t].wait = "zero"
               THEN Return(t, Err(SavedData(op[t])))
               ELSE Goto(t, "queue2_send_blocked")
            /\ UNCHANGED <<queue2, sentLog2>>
    /\ UNCHANGED <<chan, notif, taken, polls, nextItem, ghost, drive, wakes,
                   life, context, bqueue, wakers2, bqueueSent, bqueueRecv,
                   recvLog2,
                   units, blocking, timers, notification, spawning>>

\* max_wait elapses while the second channel is still full: Err(item)
QueueSend2Timeout(t) ==
    /\ pc[t] = "queue2_send_blocked"
    /\ TimesOut(op[t].wait)
    /\ QueueIsFull(queue2)
    /\ Return(t, Err(SavedData(op[t])))
    /\ UNCHANGED <<chan, notif, taken, polls, nextItem, ghost, drive, rest,
                   wakes>>

\* AsyncQueueReceiver::receive_blocking on the second channel:
\* Queue::receive, then send_waker.wake()
QueueReceive2(t) ==
    /\ pc[t] \in {"queue2_receive", "queue2_receive_blocked"}
    /\ IF uxQueueMessagesWaiting(queue2) > 0
       THEN /\ queue2' = xQueueReceive(queue2)
            /\ recvLog2' = Append(recvLog2, Head(queue2.items))
            /\ op' = [op EXCEPT ![t].item = Some(Head(queue2.items))]
            /\ pc' = [pc EXCEPT ![t] = "wake2_fetch_or"]
            /\ UNCHANGED result
       ELSE /\ pc[t] = "queue2_receive"
            /\ IF op[t].wait = "zero"
               THEN Return(t, Err(NoItem))
               ELSE Goto(t, "queue2_receive_blocked")
            /\ UNCHANGED <<queue2, recvLog2>>
    /\ UNCHANGED <<chan, notif, taken, polls, nextItem, ghost, drive, wakes,
                   life, context, bqueue, wakers2, bqueueSent, bqueueRecv,
                   sentLog2,
                   units, blocking, timers, notification, spawning>>

\* max_wait elapses while the second channel is still empty
QueueReceive2Timeout(t) ==
    /\ pc[t] = "queue2_receive_blocked"
    /\ TimesOut(op[t].wait)
    /\ uxQueueMessagesWaiting(queue2) = 0
    /\ Return(t, Err(NoItem))
    /\ UNCHANGED <<chan, notif, taken, polls, nextItem, ghost, drive, rest,
                   wakes>>

\* AtomicWaker::wake on a mailbox of the second channel, take():
\* state.fetch_or(WAKING)
WakeFetchOr2(t) ==
    /\ pc[t] = "wake2_fetch_or"
    /\ LET m == PeerWaker(op[t].kind) IN
        /\ wakers2' = [wakers2 EXCEPT ![m].state = @ \cup {WAKING}]
        /\ IF wakers2[m].state = WAITING
           THEN Goto(t, "wake2_take")
           ELSE Return(t, Success(op[t]))
    /\ taken' = [taken EXCEPT ![t] = NoWaker]
    /\ UNCHANGED <<chan, notif, polls, nextItem, ghost, drive, wakes, life,
                   context, bqueue, queue2, bqueueSent, bqueueRecv, sentLog2,
                   recvLog2,
                   units, blocking, timers, notification, spawning>>

\* take(): the waker leaves the cell, state.fetch_and(!WAKING); wake():
\* waker.wake() on a waker that was taken (no poller registers in the
\* mailboxes of the second channel, its two ends are used by blocking calls)
WakeTake2(t) ==
    /\ pc[t] = "wake2_take"
    /\ LET m == PeerWaker(op[t].kind) IN
        /\ wakers2' = [wakers2 EXCEPT ![m] =
                          [state |-> @.state \ {WAKING}, waker |-> NoWaker]]
        /\ taken' = [taken EXCEPT ![t] = wakers2[m].waker]
        /\ IF wakers2[m].waker = NoWaker
           THEN UNCHANGED <<notif, wakes>>
           ELSE Wake(wakers2[m].waker)
    /\ Return(t, Success(op[t]))
    /\ UNCHANGED <<chan, polls, nextItem, ghost, drive, life, context,
                   bqueue, queue2, bqueueSent, bqueueRecv, sentLog2,
                   recvLog2,
                   units, blocking, timers, notification, spawning>>

\* The producer sends into the first channel with send_blocking, with any
\* max_wait
ProducerStep(t) ==
    \/ StartSendBlocking(t)
    \/ QueueSend(t)
    \/ QueueSendUnblock(t)
    \/ QueueSendTimeout(t)

\* receive_waker.wake() / send_waker.wake() on the first channel
WakeStep(t) ==
    \/ WakeFetchOr(t)
    \/ WakeTake(t)

AsyncToBlockingStep(t) ==
    \/ AsyncToBlockingReceive(t)
    \/ QueueReceive(t)
    \/ QueueReceiveUnblock(t)
    \/ QueueReceiveTimeout(t)
    \/ AsyncToBlockingSend(t)
    \/ QueueSendBridge(t)
    \/ QueueSendBridgeTimeout(t)

BlockingToAsyncStep(t) ==
    \/ BlockingToAsyncReceive(t)
    \/ QueueReceiveBridge(t)
    \/ QueueReceiveBridgeTimeout(t)
    \/ BlockingToAsyncSend(t)
    \/ QueueSend2(t)
    \/ QueueSend2Timeout(t)

ConsumerStep(t) ==
    \/ ConsumerDrain(t)
    \/ QueueReceive2(t)
    \/ QueueReceive2Timeout(t)

WakeStep2(t) ==
    \/ WakeFetchOr2(t)
    \/ WakeTake2(t)

\* A step of one of the four tasks of the chain
BridgeTaskStep(t) ==
    \/ ProducerStep(t)
    \/ WakeStep(t)
    \/ AsyncToBlockingStep(t)
    \/ BlockingToAsyncStep(t)
    \/ ConsumerStep(t)
    \/ WakeStep2(t)

BridgeTasks == {SenderTask, AsyncToBlockingTask, BlockingToAsyncTask,
                ConsumerTask}

\* A producer on the sender of an AsyncToBlocking task, the task, the
\* blocking queue, a BlockingToAsync task on the same queue, and a consumer
\* on its receiver; a wait of Duration::max() runs out or does not
InitBridges ==
    /\ InitLife
    /\ InitBridge
    /\ callerIsTask = TRUE
    /\ currentTaskHandle = DriverTask
    /\ maxWaitElapses \in BOOLEAN
    /\ queue = xQueueCreate(BridgeCapacity)
    /\ wakers = [send_waker |-> AtomicWakerDefault,
                 receive_waker |-> AtomicWakerDefault]
    /\ notif = [t \in Tasks |-> 0]
    /\ InitTasks
    /\ InitOther

NextBridges == \E t \in BridgeTasks : BridgeTaskStep(t)

SpecBridges == InitBridges /\ [][NextBridges]_vars

\* The chain with a producer that waits with Duration::max() as well
ChainTaskStep(t) ==
    \/ ProducerSendMax(t)
    \/ QueueSend(t)
    \/ QueueSendUnblock(t)
    \/ QueueSendTimeout(t)
    \/ WakeStep(t)
    \/ AsyncToBlockingStep(t)
    \/ BlockingToAsyncStep(t)
    \/ ConsumerStep(t)
    \/ WakeStep2(t)

NextChain == \E t \in BridgeTasks : ChainTaskStep(t)

SpecChain == InitBridges /\ [][NextChain]_vars

\* The kernel runs every task that can run
FairSpecChain ==
    SpecChain /\ \A t \in BridgeTasks : WF_vars(ChainTaskStep(t))

\* ------------------------------------- block_on_future, take by take
\* The driver is between a pending poll and the return of take_notification
Taking(t) == pc[t] \in {"take_notification", "suspended"}

\* The driver task with a notification value left from before the call; a
\* wait of Duration::max() runs out or does not
InitTake ==
    /\ InitLife
    /\ InitBridge
    /\ callerIsTask = TRUE
    /\ currentTaskHandle = DriverTask
    /\ maxWaitElapses \in BOOLEAN
    /\ queue = xQueueCreate(1)
    /\ wakers = [send_waker |-> AtomicWakerDefault,
                 receive_waker |-> AtomicWakerDefault]
    /\ \E n \in 0..MaxStale : notif = [t \in Tasks |->
                                        IF t = DriverTask THEN n ELSE 0]
    /\ InitTasks
    /\ InitOther

\* CurrentTask::take_notification(true, Duration::max()) is called with a
\* notification value of zero: the kernel takes the task off the ready
\* list until it is notified or the wait runs out
TakeNotificationSuspends(t) ==
    /\ pc[t] = "take_notification"
    /\ notif[t] = 0
    /\ Goto(t, "suspended")
    /\ UNCHANGED <<chan, notif, taken, polls, nextItem, ghost, drive, rest,
                   wakes>>

\* The suspended task was notified: take_notification clears the value and
\* returns, the loop polls the future again
TakeNotificationResumes(t) ==
    /\ pc[t] = "suspended"
    /\ notif[t] > 0
    /\ notif' = [notif EXCEPT ![t] = 0]
    /\ wakes' = [wakes EXCEPT ![t] = 0]
    /\ polls' = [polls EXCEPT ![t] = IF @ <= MaxPolls THEN @ + 1 ELSE @]
    /\ Goto(t, FirstStep(op[t].kind))
    /\ UNCHANGED <<chan, taken, nextItem, ghost, drive, rest>>

\* The wait of Duration::max() ticks ran out with the value still zero:
\* take_notification returns 0, which the loop ignores, and polls again
TakeNotificationTimesOut(t) ==
    /\ pc[t] = "suspended"
    /\ notif[t] = 0
    /\ TimesOut("max")
    /\ wakes' = [wakes EXCEPT ![t] = 0]
    /\ polls' = [polls EXCEPT ![t] = IF @ <= MaxPolls THEN @ + 1 ELSE @]
    /\ Goto(t, FirstStep(op[t].kind))
    /\ UNCHANGED <<chan, notif, taken, nextItem, ghost, drive, rest>>

\* The source of the wakes signals the waker it was given at any time
\* after the poll, also more than once
SpuriousWake ==
    /\ pc[DriverTask] \in {"take_notification", "suspended"}
    /\ wakes[DriverTask] <= MaxStale
    /\ Wake(DriverTask)
    /\ UNCHANGED <<chan, pc, op, taken, result, polls, nextItem, ghost, fut,
                   owed, rest>>

DriverTakeStep ==
    \/ StartBlockOn(DriverTask)
    \/ CountdownPoll(DriverTask)
    \/ TakeNotification(DriverTask)
    \/ TakeNotificationSuspends(DriverTask)
    \/ TakeNotificationResumes(DriverTask)
    \/ TakeNotificationTimesOut(DriverTask)

NextTake == DriverTakeStep \/ ExternalWake \/ SpuriousWake

SpecTake == InitTake /\ [][NextTake]_vars

FairSpecTake == SpecTake /\ WF_vars(DriverTakeStep) /\ WF_vars(ExternalWake)

\* ------------------------- block_on_future on a future that awaits an event
\* block_on_future(future): the future gets ready when its source has seen
\* an event, however often it is polled before
StartBlockOnEvent(t) ==
    /\ t = DriverTask
    /\ fut.value = NoItem
    /\ pc[t] = "idle"
    /\ IF TaskCurrent(currentTaskHandle).tag = "Err"
       THEN /\ pc' = [pc EXCEPT ![t] = "panicked"]
            /\ UNCHANGED <<fut, op, result, taken, polls>>
       ELSE /\ \E v \in 1..MaxValue :
                  fut' = [needed |-> 0, remaining |-> 1, value |-> Some(v)]
            /\ Begin(t, "event", NoItem, "zero", FirstStep("event"))
            /\ polls' = [polls EXCEPT ![t] = 1]
    /\ UNCHANGED <<chan, notif, nextItem, ghost, owed, rest, wakes>>

\* Mutant: the poll after a wake is taken to be ready
EventPollReady(t) ==
    /\ pc[t] = "countdown_poll"
    /\ op[t].kind = "event"
    /\ Return(t, Ok(fut.value))
    /\ UNCHANGED <<chan, notif, taken, polls, nextItem, ghost, rest, wakes,
                   fut, owed>>

\* future.as_mut().poll(&mut context): Poll::Ready(value) breaks the loop
\* with the value, Poll::Pending goes on to take_notification
EventPoll(t) ==
    /\ pc[t] = "countdown_poll"
    /\ op[t].kind = "event"
    /\ IF fut.remaining = 0
       THEN Return(t, Ok(fut.value))
       ELSE Goto(t, "take_notification")
    /\ UNCHANGED <<chan, notif, taken, polls, nextItem, ghost, rest, wakes,
                   fut, owed>>

\* The source of the future sees its event; it signals the waker when a
\* pending poll has left it one
EventCompletes ==
    /\ op[DriverTask].kind = "event"
    /\ fut.remaining = 1
    /\ fut' = [fut EXCEPT !.remaining = 0]
    /\ owed' = IF Taking(DriverTask) \/ polls[DriverTask] >= 2
               THEN owed + 1 ELSE owed
    /\ UNCHANGED <<chan, notif, pc, op, taken, result, polls, nextItem, ghost,
                   rest, wakes>>

DriverEventStep ==
    \/ StartBlockOnEvent(DriverTask)
    \/ EventPoll(DriverTask)
    \/ TakeNotification(DriverTask)
    \/ TakeNotificationSuspends(DriverTask)
    \/ TakeNotificationResumes(DriverTask)
    \/ TakeNotificationTimesOut(DriverTask)

NextEvent == DriverEventStep \/ EventCompletes \/ ExternalWake \/ SpuriousWake

SpecEvent == InitTake /\ [][NextEvent]_vars

FairSpecEvent ==
    /\ SpecEvent
    /\ WF_vars(DriverEventStep)
    /\ WF_vars(EventCompletes)
    /\ WF_vars(ExternalWake)

\* ------------------------------- pollable operations that are abandoned
\* The tasks that poll a send of the AsyncQueueSender and a receive of the
\* AsyncQueueReceiver: the handle moves from one task to the other between
\* two operations
SendPollers == {SenderTask, DriverTask}
ReceivePollers == {ReceiverTask, DriverTask}

\* channel(1), empty or filled by an earlier send_blocking of an item 0
InitAbandon ==
    /\ InitLife
    /\ InitBridge
    /\ callerIsTask = TRUE
    /\ currentTaskHandle = DriverTask
    /\ maxWaitElapses = FALSE
    /\ \E earlier \in {<<>>, <<0>>} :
          /\ queue = [xQueueCreate(1) EXCEPT !.items = earlier]
          /\ sentLog = earlier
    /\ wakers = [send_waker |-> AtomicWakerDefault,
                 receive_waker |-> AtomicWakerDefault]
    /\ notif = [t \in Tasks |-> 0]
    /\ pc = [t \in Tasks |-> "idle"]
    /\ op = [t \in Tasks |-> IdleOp]
    /\ taken = [t \in Tasks |-> NoWaker]
    /\ result = [t \in Tasks |-> NoResult]
    /\ polls = [t \in Tasks |-> 0]
    /\ wakes = [t \in Tasks |-> 0]
    /\ nextItem = 1
    /\ recvLog = <<>>
    /\ isrCalls = {}
    /\ recvStarted = FALSE
    /\ readySends = 0
    /\ fut = [needed |-> 0, remaining |-> 0, value |-> NoItem]
    /\ owed = 0
    /\ InitOther

\* sender.send(item) is polled for the first time by a task; send takes
\* &mut self, so no other send of the sender is alive
PollSendBy(t) ==
    /\ t \in SendPollers
    /\ SenderTask \in handles
    /\ \A u \in SendPollers : pc[u] = "idle"
    /\ notif[t] <= MaxStalePolled
    /\ nextItem <= MaxPolledItems
    /\ Begin(t, "send", Some(nextItem), "zero", FirstStep("send"))
    /\ nextItem' = nextItem + 1
    /\ polls' = [polls EXCEPT ![t] = 1]
    /\ UNCHANGED <<chan, notif, ghost, drive, rest, wakes>>

\* receiver.receive() is polled for the first time by a task; receive takes
\* &mut self
PollReceiveBy(t) ==
    /\ t \in ReceivePollers
    /\ ReceiverTask \in handles
    /\ \A u \in ReceivePollers : pc[u] = "idle"
    /\ notif[t] <= MaxStalePolled
    /\ Begin(t, "receive", NoItem, "zero", FirstStep("receive"))
    /\ recvStarted' = TRUE
    /\ polls' = [polls EXCEPT ![t] = 1]
    /\ UNCHANGED <<chan, notif, nextItem, sentLog, recvLog, isrCalls,
                   readySends, drive, rest, wakes>>

\* Mutant: dropping the future takes the head item of the queue with it
AbandonTakesHead(t) ==
    /\ pc[t] = "take_notification"
    /\ op[t].kind \in {"send", "receive"}
    /\ pc' = [pc EXCEPT ![t] = "idle"]
    /\ op' = [op EXCEPT ![t] = IdleOp]
    /\ result' = [result EXCEPT ![t] = [NoResult EXCEPT !.kind = op[t].kind]]
    /\ polls' = [polls EXCEPT ![t] = 0]
    /\ nextItem' = IF op[t].kind = "send" THEN nextItem - 1 ELSE nextItem
    /\ queue' = [queue EXCEPT !.items = IF @ = <<>> THEN @ ELSE Tail(@)]
    /\ UNCHANGED <<wakers, notif, taken, ghost, drive, rest, wakes>>

\* The future of a send or receive is dropped after a poll returned
\* Poll::Pending: a send drops its item with it (the next send gets the
\* number of the item that never entered the queue), nothing is returned
Abandon(t) ==
    /\ pc[t] = "take_notification"
    /\ op[t].kind \in {"send", "receive"}
    /\ pc' = [pc EXCEPT ![t] = "idle"]
    /\ op' = [op EXCEPT ![t] = IdleOp]
    /\ result' = [result EXCEPT ![t] = [NoResult EXCEPT !.kind = op[t].kind]]
    /\ polls' = [polls EXCEPT ![t] = 0]
    /\ nextItem' = IF op[t].kind = "send" THEN nextItem - 1 ELSE nextItem
    /\ UNCHANGED <<chan, notif, taken, ghost, drive, rest, wakes>>

AbandonStep(t) ==
    \/ PollSendBy(t)
    \/ PollReceiveBy(t)
    \/ SpacesAvailable(t)
    \/ QueueSend(t)
    \/ QueueReceive(t)
    \/ WakerStep(t)
    \/ Abandon(t)

NextAbandon == \E t \in SendPollers \cup ReceivePollers : AbandonStep(t)

SpecAbandon == InitAbandon /\ [][NextAbandon]_vars

\* ------------------------------------------- Task::start, pump builders
\* What the closure of a task does: it returns, it never returns, or it is
\* the loop of a pump task
ClosureKinds == {"returns", "never_returns"}
PumpBuilders == {"BlockingToAsync", "AsyncToBlocking"}

\* The handle the closure of a pump task captures (BlockingToAsync sends
\* into its channel, AsyncToBlocking receives from it), and the handle
\* create() returns
CapturedHandle(builder) ==
    IF builder = "BlockingToAsync" THEN SenderTask ELSE ReceiverTask
ReturnedHandle(builder) ==
    IF builder = "BlockingToAsync" THEN ReceiverTask ELSE SenderTask

\* Nothing was started and no channel exists
InitSpawn == InitNoChannel

\* A value that owns the handles hs (at most one) goes out of scope
DropOwned(hs) ==
    IF hs \cap handles = {}
    THEN UNCHANGED <<handles, strong, deleted, dropped>>
    ELSE /\ handles' = handles \ hs
         /\ strong' = strong - 1
         /\ deleted' = IF IsLastOwner(strong) THEN deleted + 1 ELSE deleted
         /\ dropped' = AsyncQueueDrop(strong, queue.items)

spawnFrame == <<chan, notif, pc, op, taken, result, polls, nextItem, ghost,
                drive, wakes, bridge, context, units, blocking, timers,
                notification>>

\* Task::new().start(f) -> Task::spawn -> Task::spawn_inner(Box::new(f), ..)
TaskStart ==
    /\ creator = NoCreator
    /\ \E kind \in ClosureKinds :
          closure' = [NoClosure EXCEPT !.kind = kind]
    /\ creator' = [creator EXCEPT !.builder = "task", !.pc = "spawn_inner"]
    /\ UNCHANGED <<spawnFrame, life, thread>>

\* <builder>.create() is called
PumpCreate ==
    /\ creator = NoCreator
    /\ \E b \in PumpBuilders :
          creator' = [creator EXCEPT !.builder = b, !.pc = "channel"]
    /\ UNCHANGED <<spawnFrame, life, closure, thread>>

\* let (sender, receiver) = channel(self.capacity)?
PumpChannel ==
    /\ creator.pc = "channel"
    /\ Channel

\* The `?` after channel(): the error is returned, otherwise the closure
\* with the loop takes one handle and start() is called
PumpChannelReturned ==
    /\ creator.pc = "channel"
    /\ channelResult # "none"
    /\ IF channelResult = "Ok"
       THEN /\ closure' = [NoClosure EXCEPT
                             !.kind = "pump",
                             !.captured = {CapturedHandle(creator.builder)}]
            /\ creator' = [creator EXCEPT !.pc = "spawn_inner"]
       ELSE /\ creator' = [creator EXCEPT !.pc = "returned",
                                          !.created = channelResult]
            /\ UNCHANGED closure
    /\ UNCHANGED <<spawnFrame, life, thread>>

\* spawn_inner: Box::into_raw(Box::new(f)) and xTaskCreate(thread_start, ..,
\* param_ptr, ..), which the kernel may refuse
XTaskCreate ==
    /\ creator.pc = "spawn_inner"
    /\ closure' = [closure EXCEPT !.boxed = TRUE]
    /\ \E success \in BOOLEAN :
          IF success
          THEN /\ thread' = "ready"
               /\ creator' = [creator EXCEPT !.pc = "task_created"]
          ELSE /\ creator' = [creator EXCEPT !.pc = "task_refused"]
               /\ UNCHANGED thread
    /\ UNCHANGED <<spawnFrame, life>>

\* Mutant: the closure stays allocated when the kernel refused the task
SpawnFailedLeaks ==
    /\ creator.pc = "task_refused"
    /\ creator' = [creator EXCEPT
                      !.started = OutOfMemory,
                      !.pc = IF creator.builder = "task" THEN "returned"
                             ELSE "started"]
    /\ UNCHANGED <<spawnFrame, life, closure, thread>>

\* spawn_inner, !success: drop(Box::from_raw(param_ptr)) frees the closure
\* with what it captured; return Err(FreeRtosError::OutOfMemory)
SpawnFailed ==
    /\ creator.pc = "task_refused"
    /\ closure' = [closure EXCEPT !.boxed = FALSE, !.freed = @ + 1,
                                  !.captured = {}]
    /\ DropOwned(closure.captured)
    /\ creator' = [creator EXCEPT
                      !.started = OutOfMemory,
                      !.pc = IF creator.builder = "task" THEN "returned"
                             ELSE "started"]
    /\ UNCHANGED <<spawnFrame, channelResult, thread>>

\* spawn_inner, success: Ok(Task { task_handle })
SpawnSucceeded ==
    /\ creator.pc = "task_created"
    /\ creator' = [creator EXCEPT
                      !.started = "Ok",
                      !.pc = IF creator.builder = "task" THEN "returned"
                             ELSE "started"]
    /\ UNCHANGED <<spawnFrame, life, closure, thread>>

\* The `?` after start() and Ok(receiver) / Ok(sender): on the error the
\* handle that is not in the closure goes out of scope
PumpStarted ==
    /\ creator.pc = "started"
    /\ creator' = [creator EXCEPT !.pc = "returned",
                                  !.created = creator.started]
    /\ IF creator.started = "Ok"
       THEN UNCHANGED <<handles, strong, deleted, dropped>>
       ELSE DropOwned({ReturnedHandle(creator.builder)})
    /\ UNCHANGED <<spawnFrame, channelResult, closure, thread>>

\* The caller of create() uses the handle it got (send_from_isr on a
\* sender, receive_blocking on a receiver) and drops it
ReturnedHandleUsed ==
    /\ creator.pc = "returned"
    /\ creator.created = "Ok"
    /\ LET t == ReturnedHandle(creator.builder) IN
          \/ StartSendFromIsr(t)
          \/ QueueSendFromIsr(t)
          \/ StartReceiveBlocking(t)
          \/ QueueReceive(t)
          \/ QueueReceiveTimeout(t)
          \/ WakeFetchOr(t)
          \/ WakeTake(t)
          \/ DropHandle(t)

\* Mutant: thread_start calls the closure through the pointer and leaves
\* the task ready to be started again
ThreadStartAgain ==
    /\ thread = "ready"
    /\ closure.runs <= 1
    /\ closure' = [closure EXCEPT !.runs = @ + 1]
    /\ UNCHANGED <<spawnFrame, life, creator, thread>>

\* thread_start in the new task: Box::from_raw(main) takes the closure
\* back and calls it with Task::current()
ThreadStart ==
    /\ thread = "ready"
    /\ closure' = [closure EXCEPT !.runs = @ + 1]
    /\ thread' = "main"
    /\ UNCHANGED <<spawnFrame, life, creator>>

\* The closure of a pump task enters its loop, which has no exit
PumpLoop ==
    /\ thread = "main"
    /\ closure.kind = "pump"
    /\ thread' = "pump_loop"
    /\ UNCHANGED <<spawnFrame, life, creator, closure>>

\* The closure returned, which consumed it: panic!("Not allowed to quit the
\* task!") in an extern "C" function
ClosureReturned ==
    /\ thread = "main"
    /\ closure.kind = "returns"
    /\ closure' = [closure EXCEPT !.boxed = FALSE, !.freed = @ + 1]
    /\ thread' = "panicked"
    /\ UNCHANGED <<spawnFrame, life, creator>>

ThreadStep == ThreadStart \/ PumpLoop \/ ClosureReturned

NextSpawn ==
    \/ TaskStart
    \/ PumpCreate
    \/ PumpChannel
    \/ PumpChannelReturned
    \/ XTaskCreate
    \/ SpawnFailed
    \/ SpawnSucceeded
    \/ PumpStarted
    \/ ReturnedHandleUsed
    \/ ThreadStep

SpecSpawn == InitSpawn /\ [][NextSpawn]_vars

\* The kernel runs every task that can run
FairSpecSpawn == SpecSpawn /\ WF_vars(ThreadStep)

\* ------------------------------------------------------- Duration
\* A channel nobody uses
InitQuiet ==
    /\ InitLife
    /\ InitBridge
    /\ callerIsTask = TRUE
    /\ currentTaskHandle = DriverTask
    /\ maxWaitElapses = FALSE
    /\ queue = xQueueCreate(1)
    /\ wakers = [send_waker |-> AtomicWakerDefault,
                 receive_waker |-> AtomicWakerDefault]
    /\ notif = [t \in Tasks |-> 0]
    /\ pc = [t \in Tasks |-> "idle"]
    /\ op = [t \in Tasks |-> IdleOp]
    /\ taken = [t \in Tasks |-> NoWaker]
    /\ result = [t \in Tasks |-> NoResult]
    /\ polls = [t \in Tasks |-> 0]
    /\ wakes = [t \in Tasks |-> 0]
    /\ nextItem = 1
    /\ sentLog = <<>>
    /\ recvLog = <<>>
    /\ isrCalls = {}
    /\ recvStarted = FALSE
    /\ readySends = 0
    /\ fut = [needed |-> 0, remaining |-> 0, value |-> NoItem]
    /\ owed = 0

unitsFrame == <<quiet, bridge, blocking, timers, notification, spawning>>

\* The kernel configuration and the build profile
InitUnits ==
    /\ InitQuiet
    /\ NoNotification
    /\ NoSpawning
    /\ NoBlocking
    /\ NoTimers
    /\ tickPeriod \in 1..MaxTickPeriod
    /\ overflowChecks \in BOOLEAN
    /\ duration = zero
    /\ made = [ctor |-> "zero", arg |-> 0]
    /\ unitsOut = NoCall

Make(d, ctor, arg) ==
    /\ duration' = d
    /\ made' = [ctor |-> ctor, arg |-> arg]
    /\ unitsOut' = NoCall
    /\ UNCHANGED <<unitsFrame, tickPeriod, overflowChecks>>

DurationFromMs == \E m \in TickType : Make(from_ms(m, tickPeriod), "from_ms", m)

DurationFromTicks == \E n \in TickType : Make(from_ticks(n), "from_ticks", n)

DurationMax == Make(max, "max", 0)

DurationInfinite == Make(infinite, "infinite", 0)

DurationZero == Make(zero, "zero", 0)

DurationEps == Make(eps, "eps", 0)

DurationMs ==
    /\ unitsOut.kind # "ms"
    /\ unitsOut' = [kind |-> "ms"] @@ ms(duration, tickPeriod, overflowChecks)
    /\ UNCHANGED <<unitsFrame, tickPeriod, overflowChecks, duration, made>>

DurationTicks ==
    /\ unitsOut.kind # "ticks"
    /\ unitsOut' = [kind |-> "ticks"] @@ Returns(ticks(duration), FALSE)
    /\ UNCHANGED <<unitsFrame, tickPeriod, overflowChecks, duration, made>>

NextUnits ==
    \/ DurationFromMs
    \/ DurationFromTicks
    \/ DurationMax
    \/ DurationInfinite
    \/ DurationZero
    \/ DurationEps
    \/ DurationMs
    \/ DurationTicks

SpecUnits == InitUnits /\ [][NextUnits]_vars

\* ------------------------------------------------------- Queue<T>
blockingFrame == <<quiet, queue2, wakers2, sentLog2, recvLog2, units, timers,
                   notification, spawning>>

\* Queue::new(1) returned one Queue<T>
InitQueue ==
    /\ InitQuiet
    /\ NoNotification
    /\ NoSpawning
    /\ NoUnits
    /\ NoTimers
    /\ clones = {1}
    /\ raw = FALSE
    /\ bqueueDeleted = 0
    /\ sentVia = <<>>
    /\ recvVia = <<>>
    /\ qop = NoQueueOp

QueueHandles == 1..MaxHandles

DropOfQueueDeletes(calls) == calls + 1

\* vQueueDelete calls after a Queue<T> went out of scope: Queue<T> has no
\* Drop implementation
DropOfQueue(calls) == calls

\* The kernel queue behind a Queue<T> is there
Valid == bqueueDeleted = 0

\* Queue::clone
QueueClone(h, new) ==
    /\ h \in clones
    /\ new \notin clones
    /\ clones' = clones \cup {new}
    /\ qop' = [NoQueueOp EXCEPT !.kind = "clone", !.handle = new,
                                !.before = bqueue.items]
    /\ UNCHANGED <<blockingFrame, bqueue, bqueueSent, bqueueRecv, raw,
                   bqueueDeleted, sentVia, recvVia>>

\* Queue::raw_handle
QueueRawHandle(h) ==
    /\ h \in clones
    /\ ~raw
    /\ raw' = TRUE
    /\ qop' = [NoQueueOp EXCEPT !.kind = "raw_handle", !.handle = h,
                                !.before = bqueue.items]
    /\ UNCHANGED <<blockingFrame, bqueue, bqueueSent, bqueueRecv, clones,
                   bqueueDeleted, sentVia, recvVia>>

\* Queue::from_raw_handle
QueueFromRawHandle(new) ==
    /\ raw
    /\ new \notin clones
    /\ clones' = clones \cup {new}
    /\ qop' = [NoQueueOp EXCEPT !.kind = "from_raw_handle", !.handle = new,
                                !.before = bqueue.items]
    /\ UNCHANGED <<blockingFrame, bqueue, bqueueSent, bqueueRecv, raw,
                   bqueueDeleted, sentVia, recvVia>>

\* A Queue<T> goes out of scope
QueueDrop(h) ==
    /\ h \in clones
    /\ clones' = clones \ {h}
    /\ bqueueDeleted' = DropOfQueue(bqueueDeleted)
    /\ qop' = [NoQueueOp EXCEPT !.kind = "drop", !.handle = h,
                                !.before = bqueue.items]
    /\ UNCHANGED <<blockingFrame, bqueue, bqueueSent, bqueueRecv, raw,
                   sentVia, recvVia>>

\* Queue::send(item, Duration::zero()) through one Queue<T>; on a deleted
\* queue the kernel call works on freed memory, with any outcome
QueueSendVia(h) ==
    /\ h \in clones
    /\ Len(bqueueSent) < MaxQueueItems
    /\ LET item == Len(bqueueSent) + 1
           done == /\ bqueue' = xQueueSendToBack(bqueue, item)
                   /\ bqueueSent' = Append(bqueueSent, item)
                   /\ sentVia' = Append(sentVia, h)
                   /\ qop' = [kind |-> "send", handle |-> h, tag |-> "Ok",
                              item |-> NoItem, before |-> bqueue.items]
           failed == /\ qop' = [kind |-> "send", handle |-> h,
                                tag |-> "Err", item |-> item,
                                before |-> bqueue.items]
                     /\ UNCHANGED <<bqueue, bqueueSent, sentVia>>
       IN  IF Valid
           THEN IF QueueIsFull(bqueue) THEN failed ELSE done
           ELSE done \/ failed
    /\ UNCHANGED <<blockingFrame, bqueueRecv, clones, raw, bqueueDeleted,
                   recvVia>>

\* Queue::receive(Duration::zero()) through one Queue<T>
QueueReceiveVia(h) ==
    /\ h \in clones
    /\ LET done == /\ bqueue.items # <<>>
                   /\ bqueue' = xQueueReceive(bqueue)
                   /\ bqueueRecv' = Append(bqueueRecv, Head(bqueue.items))
                   /\ recvVia' = Append(recvVia, h)
                   /\ qop' = [kind |-> "receive", handle |-> h,
                              tag |-> "Ok", item |-> Head(bqueue.items),
                              before |-> bqueue.items]
           failed == /\ qop' = [kind |-> "receive", handle |-> h,
                                tag |-> "Err", item |-> NoItem,
                                before |-> bqueue.items]
                     /\ UNCHANGED <<bqueue, bqueueRecv, recvVia>>
       IN  IF Valid
           THEN IF bqueue.items = <<>> THEN failed ELSE done
           ELSE done \/ failed
    /\ UNCHANGED <<blockingFrame, bqueueSent, clones, raw, bqueueDeleted,
                   sentVia>>

NextQueue ==
    \/ \E h, new \in QueueHandles : QueueClone(h, new)
    \/ \E h \in QueueHandles : QueueRawHandle(h)
    \/ \E new \in QueueHandles : QueueFromRawHandle(new)
    \/ \E h \in QueueHandles : QueueDrop(h)
    \/ \E h \in QueueHandles : QueueSendVia(h)
    \/ \E h \in QueueHandles : QueueReceiveVia(h)

SpecQueue == InitQueue /\ [][NextQueue]_vars

\* ------------------------------------------------------- timers.rs
timersFrame == <<quiet, bridge, units, blocking, notification, spawning>>

InitTimers ==
    /\ InitQuiet
    /\ NoNotification
    /\ NoSpawning
    /\ NoUnits
    /\ NoBlocking
    /\ NoTimers

Periods == 0..MaxPeriod

IsZeroDurationNever(period) == FALSE

\* period == 0 / new_period.ticks() == 0
IsZeroDuration(period) == period = 0

\* The result of a Timer / TimerHandle call
TimerCall(kind, period, r, issued) ==
    [seq |-> tcall.seq + 1, kind |-> kind, period |-> period,
     tag |-> r.tag, err |-> r.item, issued |-> issued]

\* The timer service task takes a command if its queue has room; if it has
\* none for the whole block time the command is not sent
CanSend == Len(timerQueue) < TimerQueueLength

\* Timer::once / Timer::periodic: Timer::spawn
TimerSpawn(kind, period) ==
    /\ owner = "none"
    /\ tcall.seq < MaxTimerOps
    /\ IF IsZeroDuration(period)
       THEN /\ tcall' = TimerCall(kind, period, Err(ZeroDuration), {})
            /\ UNCHANGED <<timer, owner, callback>>
       ELSE \/ \* xTimerCreate returned a handle
               /\ timer' = [created |-> TRUE, freed |-> FALSE,
                            active |-> FALSE, period |-> period,
                            autoReload |-> (kind = "periodic")]
               /\ owner' = "owned"
               /\ callback' = [callback EXCEPT !.boxed = TRUE]
               /\ tcall' = TimerCall(kind, period, Ok(NoItem),
                                     {"xTimerCreate"})
            \/ \* xTimerCreate returned null: the Box is dropped at once
               /\ owner' = "failed"
               /\ callback' = [callback EXCEPT !.boxed = TRUE,
                                               !.freed = @ + 1]
               /\ tcall' = TimerCall(kind, period, Err(OutOfMemory),
                                     {"xTimerCreate"})
               /\ UNCHANGED timer
    /\ UNCHANGED <<timersFrame, timerQueue, dropPc, handleCopy>>

TimerOnce == \E period \in Periods : TimerSpawn("once", period)

TimerPeriodic == \E period \in Periods : TimerSpawn("periodic", period)

\* Timer::handle: TimerHandle is Copy and is not bound to the Timer's
\* lifetime
TimerHandleCopy ==
    /\ owner = "owned"
    /\ dropPc = "idle"
    /\ ~handleCopy
    /\ handleCopy' = TRUE
    /\ UNCHANGED <<timersFrame, timer, owner, callback, timerQueue, tcall,
                   dropPc>>

\* A TimerHandle is at hand: the Timer's own or a copy of it
HasHandle ==
    /\ timer.created
    /\ (owner = "owned" /\ dropPc = "idle") \/ handleCopy
    /\ tcall.seq < MaxTimerOps

\* A command is sent to the timer service task or times out
SendCommand(kind, period, command, api) ==
    /\ IF CanSend
       THEN /\ timerQueue' = Append(timerQueue, command)
            /\ tcall' = TimerCall(kind, period, Ok(NoItem), {api})
       ELSE /\ tcall' = TimerCall(kind, period, Err(Timeout), {api})
            /\ UNCHANGED timerQueue
    /\ UNCHANGED <<timersFrame, timer, owner, callback, dropPc, handleCopy>>

\* TimerHandle::start
TimerStart ==
    /\ HasHandle
    /\ SendCommand("start", 0, [command |-> "start", period |-> 0],
                   "shim_xTimerStart")

\* TimerHandle::stop
TimerStop ==
    /\ HasHandle
    /\ SendCommand("stop", 0, [command |-> "stop", period |-> 0],
                   "shim_xTimerStop")

\* TimerHandle::change_period
TimerChangePeriod ==
    /\ HasHandle
    /\ \E period \in Periods :
          IF IsZeroDuration(period)
          THEN /\ tcall' = TimerCall("change_period", period,
                                     Err(ZeroDuration), {})
               /\ UNCHANGED <<timersFrame, timer, owner, callback,
                              timerQueue, dropPc, handleCopy>>
          ELSE SendCommand("change_period", period,
                           [command |-> "change_period", period |-> period],
                           "shim_xTimerChangePeriod")

\* Timer::detach: core::mem::forget(self)
TimerDetach ==
    /\ owner = "owned"
    /\ dropPc = "idle"
    /\ owner' = "detached"
    /\ UNCHANGED <<timersFrame, timer, callback, timerQueue, tcall, dropPc,
                   handleCopy>>

\* Timer::drop up to assert_eq!(result, pdTRUE(), "timer deletion has
\* failed"): self.handle.id() and shim_xTimerDelete
TimerDropDelete ==
    /\ owner = "owned"
    /\ dropPc = "idle"
    /\ IF CanSend
       THEN /\ timerQueue' = Append(timerQueue, [command |-> "delete",
                                                  period |-> 0])
            /\ dropPc' = "pend"
            /\ UNCHANGED owner
       ELSE /\ dropPc' = "panicked"
            /\ owner' = "dropped"
            /\ UNCHANGED timerQueue
    /\ UNCHANGED <<timersFrame, timer, callback, tcall, handleCopy>>

\* Timer::drop: xTimerPendFunctionCall(Some(Self::drop_callback), timer_id)
\* and its assert_eq!
TimerDropPend ==
    /\ dropPc = "pend"
    /\ IF CanSend
       THEN /\ timerQueue' = Append(timerQueue,
                                    [command |-> "drop_callback",
                                     period |-> 0])
            /\ dropPc' = "done"
       ELSE /\ dropPc' = "panicked"
            /\ UNCHANGED timerQueue
    /\ owner' = "dropped"
    /\ UNCHANGED <<timersFrame, timer, callback, tcall, handleCopy>>

\* What a command of the kernel does to the timer it names. A command for
\* a timer that was deleted works on freed memory: it has no effect or the
\* effect it has on a timer that is there
Commanded(c) ==
    LET done == CASE c.command = "start" -> [timer EXCEPT !.active = TRUE]
                  [] c.command = "stop" -> [timer EXCEPT !.active = FALSE]
                  [] c.command = "change_period" ->
                         [timer EXCEPT !.active = TRUE,
                                       !.period = c.period]
                  [] c.command = "delete" ->
                         [timer EXCEPT !.active = FALSE, !.freed = TRUE]
                  [] OTHER -> timer
    IN  IF timer.freed THEN {timer, done} ELSE {done}

\* Timer::drop_callback: drop(Box::from_raw(callback))
DropCallback(c) ==
    IF c.command = "drop_callback"
    THEN [callback EXCEPT !.freed = @ + 1,
                          !.deletedFirst = @ /\ timer.freed]
    ELSE callback

\* The timer service task processes the next command of its queue
DaemonCommand ==
    /\ timerQueue # <<>>
    /\ timerQueue' = Tail(timerQueue)
    /\ timer' \in Commanded(Head(timerQueue))
    /\ callback' = DropCallback(Head(timerQueue))
    /\ UNCHANGED <<timersFrame, owner, tcall, dropPc, handleCopy>>

\* The timer expires: the timer service task calls Timer::callback_bridge,
\* which calls the boxed callback
DaemonExpire ==
    /\ timer.created
    /\ timer.active
    /\ callback.invoked < MaxExpiries
    /\ callback' = [callback EXCEPT !.invoked = @ + 1,
                                    !.usedAfterFree = @ \/ callback.freed > 0]
    /\ timer' = [timer EXCEPT !.active = timer.autoReload]
    /\ UNCHANGED <<timersFrame, owner, timerQueue, tcall, dropPc, handleCopy>>

NextTimers ==
    \/ TimerOnce
    \/ TimerPeriodic
    \/ TimerHandleCopy
    \/ TimerStart
    \/ TimerStop
    \/ TimerChangePeriod
    \/ TimerDetach
    \/ TimerDropDelete
    \/ TimerDropPend
    \/ DaemonCommand
    \/ DaemonExpire

SpecTimers == InitTimers /\ [][NextTimers]_vars

\* ------------------------------------------------------- Task::notify
notifyFrame == <<queue, wakers, pc, op, taken, result, polls, nextItem,
                 sentLog, recvLog, isrCalls, recvStarted, readySends, fut,
                 owed, wakes, life, context, bridge, units, blocking,
                 timers, spawning>>

InitNotify ==
    /\ InitQuiet
    /\ NoUnits
    /\ NoBlocking
    /\ NoTimers
    /\ NoNotification
    /\ NoSpawning

NotifyValues == 0..MaxNotifyValue

\* TaskNotification
TaskNotifications ==
    {[action |-> "NoAction", arg |-> 0], [action |-> "Increment", arg |-> 0]}
    \cup {[action |-> a, arg |-> v] :
              a \in {"SetBits", "OverwriteValue", "SetValue"},
              v \in NotifyValues}

\* a | b on unsigned integers
RECURSIVE BitOr(_, _)
BitOr(a, b) ==
    IF a = 0 THEN b
    ELSE IF b = 0 THEN a
    ELSE (IF a % 2 = 1 \/ b % 2 = 1 THEN 1 ELSE 0)
         + 2 * BitOr(a \div 2, b \div 2)

\* TaskNotification::to_freertos
to_freertos(n) ==
    CASE n.action = "NoAction" -> <<0, "eNoAction">>
      [] n.action = "SetBits" -> <<n.arg, "eSetBits">>
      [] n.action = "Increment" -> <<0, "eIncrement">>
      [] n.action = "OverwriteValue" -> <<n.arg, "eSetValueWithOverwrite">>
      [] n.action = "SetValue" -> <<n.arg, "eSetValueWithoutOverwrite">>

pdTRUE == "pdTRUE"
pdFALSE == "pdFALSE"

SetValueOverwrites(tcb, value) == [value |-> value, ret |-> pdTRUE]

\* eSetValueWithoutOverwrite: "Succeeds only if the task has no pending
\* notifications. Otherwise, the notification call will fail."
SetValueWithoutOverwrite(tcb, value) ==
    IF tcb.state # "received"
    THEN [value |-> value, ret |-> pdTRUE]
    ELSE [value |-> tcb.value, ret |-> pdFALSE]

\* xTaskNotify / xTaskNotifyFromISR: the task's notification becomes
\* pending, its value is updated by the action
xTaskNotify(tcb, value, action) ==
    LET new == CASE action = "eNoAction" ->
                        [value |-> tcb.value, ret |-> pdTRUE]
                 [] action = "eSetBits" ->
                        [value |-> BitOr(tcb.value, value), ret |-> pdTRUE]
                 [] action = "eIncrement" ->
                        [value |-> (tcb.value + 1) % UnsignedModulus,
                         ret |-> pdTRUE]
                 [] action = "eSetValueWithOverwrite" ->
                        [value |-> value, ret |-> pdTRUE]
                 [] action = "eSetValueWithoutOverwrite" ->
                        SetValueWithoutOverwrite(tcb, value)
    IN  [tcb |-> Tcb(new.value, "received"), ret |-> new.ret]

ThisTcb == Tcb(notif[DriverTask], notifyState)

SetTcb(tcb) ==
    /\ notif' = [notif EXCEPT ![DriverTask] = tcb.value]
    /\ notifyState' = tcb.state

\* Increment is made while the value is small
Affordable(n) == n.action = "Increment" => notif[DriverTask] <= MaxNotifyValue

\* Task::notify: the kernel's answer is dropped
TaskNotify ==
    \E n \in TaskNotifications :
        LET k == to_freertos(n)
            r == xTaskNotify(ThisTcb, k[1], k[2])
        IN  /\ Affordable(n)
            /\ SetTcb(r.tcb)
            /\ ncall' = [api |-> "notify", action |-> n.action,
                         arg |-> n.arg, tag |-> "unit", item |-> NoItem,
                         before |-> ThisTcb, after |-> r.tcb]
            /\ UNCHANGED notifyFrame

\* Task::notify_from_isr
TaskNotifyFromIsr ==
    \E n \in TaskNotifications :
        LET k == to_freertos(n)
            r == xTaskNotify(ThisTcb, k[1], k[2])
            answer == IF r.ret = pdTRUE THEN Ok(NoItem) ELSE Err(QueueFull)
        IN  /\ Affordable(n)
            /\ SetTcb(r.tcb)
            /\ ncall' = [api |-> "notify_from_isr", action |-> n.action,
                         arg |-> n.arg, tag |-> answer.tag,
                         item |-> answer.item,
                         before |-> ThisTcb, after |-> r.tcb]
            /\ UNCHANGED notifyFrame

\* CurrentTask::take_notification(clear, Duration::zero()) by the task
TaskTakeNotification ==
    \E clear \in BOOLEAN :
        LET value == notif[DriverTask]
            left == IF value = 0 THEN 0
                    ELSE IF clear THEN 0 ELSE value - 1
        IN  /\ notifyState # "waiting"
            /\ SetTcb(Tcb(left, "not_waiting"))
            /\ ncall' = [api |-> "take_notification", action |-> "none",
                         arg |-> 0, tag |-> "value", item |-> Some(value),
                         before |-> ThisTcb,
                         after |-> Tcb(left, "not_waiting")]
            /\ UNCHANGED notifyFrame

\* Task::wait_for_notification(0, clear_bits_exit, wait_for) by the task:
\* with nothing pending it waits
TaskWaitBlocks ==
    /\ notifyState = "not_waiting"
    /\ notifyState' = "waiting"
    /\ ncall' = [api |-> "wait_for_notification", action |-> "none",
                 arg |-> 0, tag |-> "none", item |-> NoItem,
                 before |-> ThisTcb, after |-> Tcb(notif[DriverTask], "waiting")]
    /\ UNCHANGED <<notifyFrame, notif>>

\* wait_for_notification returns: Ok(value) with a pending notification,
\* Err(Timeout) when wait_for ran out
TaskWaitReturns ==
    \E clearAll \in BOOLEAN :
        LET value == notif[DriverTask]
            got == notifyState = "received"
            left == IF got /\ clearAll THEN 0 ELSE value
            answer == IF got THEN Ok(Some(value)) ELSE Err(Timeout)
        IN  /\ notifyState \in {"waiting", "received"}
            /\ SetTcb(Tcb(left, "not_waiting"))
            /\ ncall' = [api |-> "wait_for_notification",
                         action |-> "none", arg |-> 0, tag |-> answer.tag,
                         item |-> answer.item, before |-> ThisTcb,
                         after |-> Tcb(left, "not_waiting")]
            /\ UNCHANGED notifyFrame

NextNotify ==
    \/ TaskNotify
    \/ TaskNotifyFromIsr
    \/ TaskTakeNotification
    \/ TaskWaitBlocks
    \/ TaskWaitReturns

SpecNotify == InitNotify /\ [][NextNotify]_vars

\* ------------------------------------------------------- properties
Peer(t) == IF t = SenderTask THEN ReceiverTask ELSE SenderTask

\* The task is suspended in take_notification with nothing to take
Suspended(t) == pc[t] = "take_notification" /\ notif[t] = 0

Range(seq) == {seq[i] : i \in 1..Len(seq)}

IsPrefix(a, b) == Len(a) <= Len(b) /\ a = SubSeq(b, 1, Len(a))

\* The item a bridge task took from its source and still has to deliver
\* (once the send has put it in the sink it is no longer the task's)
InHand(t) ==
    IF pc[t] \in {"wake2_fetch_or", "wake2_take"}
    THEN {}
    ELSE {op[t].item, result[t].item} \ {NoItem}

\* C1: once a send has succeeded and returned, a pollable receive that was
\* polled on the empty channel is not left pending and unwoken: the task
\* driving it is not suspended without a notification while the sent item
\* waits in the queue, whatever the interleaving of the send's enqueue and
\* receive_waker.wake() with the poll's receive and receive_waker.register().
ReceiveWakeupNotLost ==
    (/\ op[ReceiverTask].kind = "receive"
     /\ Suspended(ReceiverTask)
     /\ pc[SenderTask] = "idle")
    => uxQueueMessagesWaiting(queue) = 0

\* C2: a pollable send that returned pending on a full channel is woken by
\* the receive that frees a slot: its task is never suspended without a
\* notification while a slot is free and the receive has returned, and
\* under fair scheduling the pending send puts its item in the queue.
SendWakeupNotLost ==
    /\ []((/\ op[SenderTask].kind = "send"
           /\ Suspended(SenderTask)
           /\ pc[ReceiverTask] = "idle")
          => QueueIsFull(queue))
    /\ \A i \in Items :
          (/\ op[SenderTask].kind = "send"
           /\ op[SenderTask].item = Some(i)
           /\ pc[SenderTask] = "take_notification"
           /\ ~QueueIsFull(queue))
          ~> (i \in Range(sentLog) /\ pc[SenderTask] = "idle"
                /\ result[SenderTask].tag = "Ok")

\* C2 witness: a pollable send returned after more than one poll
SendWakeupNotLostWitness ==
    /\ pc[SenderTask] = "idle"
    /\ result[SenderTask].kind = "send"
    /\ result[SenderTask].tag = "Ok"
    /\ polls[SenderTask] >= 2

\* The peer of t is inside AtomicWaker::wake on the mailbox t registers in
WakeInFlight(t) == pc[Peer(t)] \in {"wake_take", "wake_notify"}

\* C3: when register(target) and a concurrent notify() on the same mailbox
\* have both completed, the target has been woken or is still stored in the
\* mailbox, where the next notify() takes it.
MailboxKeepsWakeup ==
    \A t \in ChannelTasks :
        (pc[t] = "take_notification" /\ ~WakeInFlight(t))
        => \/ notif[t] > 0
           \/ wakers[OwnWaker(op[t].kind)] = [state |-> WAITING, waker |-> t]

\* C3 witness: a register that ran into a concurrent notify and took its
\* own waker back has completed, and so has the notify
MailboxKeepsWakeupWitness ==
    /\ pc[ReceiverTask] = "take_notification"
    /\ taken[ReceiverTask] = ReceiverTask
    /\ pc[SenderTask] = "idle"

\* C4: every kernel function called on the send_from_isr path, the enqueue
\* and the wake of the registered task, is one that may be called from an
\* interrupt.
SendFromIsrInterruptSafe == isrCalls \subseteq FromISRApis

Increasing(seq) == \A i, j \in 1..Len(seq) : i < j => seq[i] < seq[j]

\* C5: the items received, followed by the items still queued, are the
\* items sent successfully, in the order the sender sent them (items are
\* numbered in the order of the send calls, whatever the send variant).
FifoOrder ==
    /\ recvLog \o queue.items = sentLog
    /\ Increasing(sentLog)

\* C5 witness: as many items as the channel holds were received, in order
FifoOrderWitness ==
    /\ queue.uxLength >= 2
    /\ Len(recvLog) >= queue.uxLength
    /\ queue.items = <<>>

\* C6: with no send or receive mid-flight, messages_waiting() +
\* spaces_available() is the capacity the channel was created with.
OccupancySum ==
    (\A t \in ChannelTasks : pc[t] = "idle")
    => messages_waiting + spaces_available = queue.uxLength

\* C6 witness: a quiescent state after a failed send and a successful
\* receive, with an item left in the queue
OccupancySumWitness ==
    /\ \A t \in ChannelTasks : pc[t] = "idle"
    /\ result[SenderTask].tag = "Err"
    /\ result[ReceiverTask].tag = "Ok"
    /\ messages_waiting > 0

\* C7: send_blocking on a full channel either blocks (non-zero max_wait) or,
\* when max_wait has elapsed, returns Err with the item it was given, the
\* queue, both mailboxes and every notification value being unchanged; a
\* blocked send enqueues only once a slot is free.
SendBlockingTimeout ==
    [][(/\ op[SenderTask].kind = "send_blocking"
        /\ pc[SenderTask] \in {"queue_send", "queue_send_blocked"}
        /\ pc'[SenderTask] # pc[SenderTask]
        /\ QueueIsFull(queue))
       => \/ /\ pc'[SenderTask] = "queue_send_blocked"
             /\ op[SenderTask].wait # "zero"
             /\ UNCHANGED <<queue, wakers, notif>>
          \/ /\ pc'[SenderTask] = "idle"
             /\ op[SenderTask].wait # "max"
             /\ result'[SenderTask].tag = "Err"
             /\ result'[SenderTask].item = op[SenderTask].item
             /\ UNCHANGED <<queue, wakers, notif>>]_vars

\* C7 witness: a send_blocking with a finite max_wait timed out
SendBlockingTimeoutWitness ==
    /\ pc[SenderTask] = "idle"
    /\ result[SenderTask].kind = "send_blocking"
    /\ result[SenderTask].wait = "finite"
    /\ result[SenderTask].tag = "Err"
    /\ result[SenderTask].item # NoItem

\* C8: send_from_isr enqueues exactly when the queue has a free slot; on a
\* full queue it returns Err with the item in the same step, the queue, both
\* mailboxes and every notification value being unchanged.
SendFromIsrFull ==
    [][(pc[SenderTask] = "queue_send_from_isr"
           /\ pc'[SenderTask] # pc[SenderTask])
       => IF uxQueueMessagesWaiting(queue) < queue.uxLength
          THEN /\ queue'.items = Append(queue.items, op[SenderTask].item[1])
               /\ pc'[SenderTask] = "wake_fetch_or"
          ELSE /\ pc'[SenderTask] = "idle"
               /\ result'[SenderTask].tag = "Err"
               /\ result'[SenderTask].item = op[SenderTask].item
               /\ UNCHANGED <<queue, wakers, notif>>]_vars

\* C8 witness: send_from_isr returned Err on a full queue while a receiver
\* was registered in the receive mailbox
SendFromIsrFullWitness ==
    /\ pc[SenderTask] = "idle"
    /\ result[SenderTask].kind = "send_from_isr"
    /\ result[SenderTask].tag = "Err"
    /\ QueueIsFull(queue)

\* C9: as long as no receive was started, a pollable send is pending only
\* on its first poll, with the queue full and its item not enqueued, a
\* pollable send that completed did so on its first poll, and no more items
\* are in the queue than it holds.
SendsUpToCapacity ==
    ~recvStarted =>
        /\ (op[SenderTask].kind = "send" /\ pc[SenderTask] = "take_notification")
             => /\ QueueIsFull(queue)
                /\ op[SenderTask].item[1] \notin Range(queue.items)
                /\ polls[SenderTask] = 1
        /\ (pc[SenderTask] = "idle" /\ result[SenderTask].kind = "send")
             => (result[SenderTask].tag = "Ok" /\ polls[SenderTask] = 1)
        /\ pc[SenderTask] # "unreachable"
        /\ Len(sentLog) <= queue.uxLength

\* C9 witness: as many pollable sends as the channel holds completed and
\* the next one is pending
SendsUpToCapacityWitness ==
    /\ ~recvStarted
    /\ readySends = queue.uxLength
    /\ op[SenderTask].kind = "send"
    /\ pc[SenderTask] = "take_notification"

\* block_on_future has returned
Returned(t) == pc[t] = "idle" /\ result[t].tag = "Ok"

\* C10: block_on_future on a computation that is ready on its k-th poll and
\* whose waker is signalled once after each pending poll returns, after
\* exactly k polls, the computation's value.
DriveToCompletion ==
    /\ [](Returned(DriverTask)
            => /\ result[DriverTask].item = fut.value
               /\ polls[DriverTask] = fut.needed)
    /\ <>Returned(DriverTask)

\* C10 witness: the computation was ready on its third poll
DriveToCompletionWitness ==
    /\ Returned(DriverTask)
    /\ fut.needed = 3
    /\ polls[DriverTask] = 3

\* C11: block_on_future called when no task is the current execution
\* context panics before it polls the computation: Task::current() is
\* Err(TaskNotFound), no poll is counted and the computation is untouched.
BlockOnFutureNeedsTask ==
    ~callerIsTask
        => /\ pc[DriverTask] \in {"idle", "panicked"}
           /\ pc[DriverTask] = "panicked"
                => TaskCurrent(currentTaskHandle) = Err(TaskNotFound)
           /\ polls[DriverTask] = 0
           /\ fut.needed = 0

\* C15: with one poller on the sender, the send that follows a resolved
\* poll_ready always finds a free slot, whatever the receiver does in
\* between: queue.send(item, Duration::zero()) is never called on a full
\* queue by the pollable send and the unreachable!() branch is never taken.
SendAfterReadySucceeds ==
    /\ pc[SenderTask] # "unreachable"
    /\ (op[SenderTask].kind = "send" /\ pc[SenderTask] = "queue_send")
         => ~QueueIsFull(queue)

\* C15 witness: poll_ready resolved on a later poll and the send is about
\* to be made while the receiver is in the middle of an operation
SendAfterReadySucceedsWitness ==
    /\ op[SenderTask].kind = "send"
    /\ pc[SenderTask] = "queue_send"
    /\ polls[SenderTask] >= 2
    /\ pc[ReceiverTask] \notin {"idle", "take_notification"}

\* C16: the notification value of a task is the number of waker::wake calls
\* on it since its last take_notification: every wake adds exactly one,
\* whichever task makes it, and none is merged with another.
WakesAccumulate ==
    \A t \in Tasks : notif[t] = wakes[t] % UnsignedModulus

\* C16 witness: two wakes of the sender, the last of them made by the
\* receiver, are waiting to be taken
WakesAccumulateWitness ==
    /\ wakes[SenderTask] >= 2
    /\ notif[SenderTask] >= 2
    /\ taken[ReceiverTask] = SenderTask
    /\ pc[ReceiverTask] = "idle"

\* C19: messages_waiting(), which both handles read from the one shared
\* queue, is the number of sends that succeeded minus the number of
\* receives that succeeded, and never more than the capacity.
MessagesWaitingCount ==
    /\ messages_waiting = Len(sentLog) - Len(recvLog)
    /\ messages_waiting <= queue.uxLength

\* C19 witness: after sends and receives that succeeded, items are waiting
MessagesWaitingCountWitness ==
    /\ Len(recvLog) >= 1
    /\ Len(sentLog) > Len(recvLog)
    /\ messages_waiting >= 1
    /\ \A t \in ChannelTasks : pc[t] = "idle"

\* C20: a receive on an empty channel changes neither the queue nor a
\* mailbox nor a notification value: receive_blocking blocks (non-zero
\* max_wait) or returns Err without an item, the pollable receive goes on to
\* register its waker (Poll::Pending), and that registration touches neither
\* the queue nor the send mailbox nor the sender's notification value.
ReceiveEmptyNoEffect ==
    /\ [][(/\ pc[ReceiverTask] \in {"queue_receive", "queue_receive_blocked"}
            /\ pc'[ReceiverTask] # pc[ReceiverTask]
            /\ uxQueueMessagesWaiting(queue) = 0)
           => /\ UNCHANGED <<queue, wakers, notif>>
              /\ IF op[ReceiverTask].kind = "receive"
                 THEN pc'[ReceiverTask] = "register_cas"
                 ELSE \/ /\ pc'[ReceiverTask] = "queue_receive_blocked"
                         /\ op[ReceiverTask].wait # "zero"
                      \/ /\ pc'[ReceiverTask] = "idle"
                         /\ result'[ReceiverTask] =
                               [kind |-> "receive_blocking",
                                wait |-> op[ReceiverTask].wait,
                                tag |-> "Err", item |-> NoItem]]_vars
    /\ [][(/\ op[ReceiverTask].kind = "receive"
            /\ pc[ReceiverTask] \in {"register_cas", "register_store",
                                      "register_take", "register_wake"}
            /\ pc'[ReceiverTask] # pc[ReceiverTask])
           => /\ queue' = queue
              /\ wakers'.send_waker = wakers.send_waker
              /\ notif'[SenderTask] = notif[SenderTask]
              /\ pc'[ReceiverTask] \in {"register_store", "register_take",
                                         "register_wake",
                                         "take_notification"}]_vars

\* C20 witness: receive_blocking returned Err on the empty channel while a
\* sender was registered in the send mailbox
ReceiveEmptyNoEffectWitness ==
    /\ pc[ReceiverTask] = "idle"
    /\ result[ReceiverTask].kind = "receive_blocking"
    /\ result[ReceiverTask].tag = "Err"
    /\ uxQueueMessagesWaiting(queue) = 0
    /\ wakers.send_waker.waker = SenderTask

\* C12: the kernel queue of a channel is deleted exactly once, by the drop
\* of the last handle: vQueueDelete has been called once when no handle is
\* left and never while a handle exists, in whatever order the handles are
\* dropped; the strong count is the number of handles that exist.
QueueDeletedOnce ==
    /\ strong = Cardinality(handles)
    /\ deleted = IF channelResult = "Ok" /\ handles = {} THEN 1 ELSE 0

\* C12 witness: both handles were dropped after items went through the
\* channel, one item being left in the queue
QueueDeletedOnceWitness ==
    /\ channelResult = "Ok"
    /\ handles = {}
    /\ deleted = 1
    /\ Len(recvLog) >= 1
    /\ uxQueueMessagesWaiting(queue) >= 1

\* C17: when xQueueCreate returns null, channel() returns Err(OutOfMemory),
\* no handle and no owner exists, and vQueueDelete is not called.
AllocationFailure ==
    /\ (channelResult # "none" /\ queue = NullQueue)
         => /\ channelResult = OutOfMemory
            /\ handles = {}
            /\ strong = 0
            /\ deleted = 0
    /\ channelResult = OutOfMemory => queue = NullQueue

\* C17 witness: channel() failed
AllocationFailureWitness ==
    /\ channelResult = OutOfMemory
    /\ queue = NullQueue

\* C18 as stated: a handle that exists can be duplicated.
HandleCanBeDuplicated ==
    \A t \in handles : ENABLED CloneHandle(t)

\* C18, amended: a handle cannot be duplicated (AsyncQueueSender and
\* AsyncQueueReceiver do not implement Clone); the two handles of one
\* channel() call share one core: the strong count is the number of handles
\* that exist, at most two, the one queue exists as long as a handle does,
\* and what the sender handle puts in is what the receiver handle takes out.
HandlesShareOneCore ==
    /\ \A t \in handles : ~ENABLED CloneHandle(t)
    /\ strong = Cardinality(handles)
    /\ strong <= Cardinality(ChannelTasks)
    /\ handles # {} => (channelResult = "Ok" /\ queue # NullQueue
                          /\ deleted = 0)
    /\ recvLog \o queue.items = sentLog

\* C18 witness: an item went from the sender handle to the receiver handle
\* and both handles exist
HandlesShareOneCoreWitness ==
    /\ handles = ChannelTasks
    /\ strong = Cardinality(ChannelTasks)
    /\ pc[ReceiverTask] = "idle"
    /\ result[ReceiverTask].tag = "Ok"
    /\ result[ReceiverTask].item # NoItem

\* C13: for both bridge tasks the items delivered to the sink are a prefix
\* of the items taken from the source; the task has at most one item taken
\* and not delivered, and that item is the one it holds, also after failed
\* sends to the sink and after receives from the source that timed out.
BridgePrefix ==
    /\ IsPrefix(bqueueSent, recvLog)
    /\ IsPrefix(sentLog2, bqueueRecv)
    /\ IF Len(recvLog) > Len(bqueueSent)
       THEN /\ Len(recvLog) = Len(bqueueSent) + 1
            /\ InHand(AsyncToBlockingTask) = {Some(recvLog[Len(recvLog)])}
       ELSE InHand(AsyncToBlockingTask) = {}
    /\ IF Len(bqueueRecv) > Len(sentLog2)
       THEN /\ Len(bqueueRecv) = Len(sentLog2) + 1
            /\ InHand(BlockingToAsyncTask) = {Some(bqueueRecv[Len(bqueueRecv)])}
       ELSE InHand(BlockingToAsyncTask) = {}

\* C13 witness: the AsyncToBlocking task got its item back from a send that
\* timed out on the full blocking queue, after the BlockingToAsync task had
\* delivered an earlier item
BridgePrefixWitness ==
    /\ pc[AsyncToBlockingTask] = "idle"
    /\ result[AsyncToBlockingTask].kind = "queue_send"
    /\ result[AsyncToBlockingTask].tag = "Err"
    /\ QueueIsFull(bqueue)
    /\ Len(sentLog2) >= 1

\* C14: under fair scheduling, with a consumer that keeps receiving, every
\* item sent into the sender of the AsyncToBlocking task gets into the
\* blocking queue, and every item put in the blocking queue gets into the
\* channel behind the receiver of the BlockingToAsync task; so every item
\* sent into the chain of the two tasks over the blocking queue of capacity
\* 1 gets to the receiver at its end.
BridgesDeliver ==
    \A i \in 1..MaxChainItems :
        /\ (i \in Range(sentLog)) ~> (i \in Range(bqueueSent))
        /\ (i \in Range(bqueueSent)) ~> (i \in Range(sentLog2))

\* C14 witness: every item the producer sent has gone through the chain to
\* the consumer, with waits that run out
BridgesDeliverWitness ==
    /\ maxWaitElapses
    /\ Len(recvLog2) = MaxChainItems
    /\ recvLog2 = sentLog

SentinelsPositive ==
    /\ max = infinite
    /\ (made.ctor \in {"eps", "max", "infinite"} /\ unitsOut.kind # "none")
           => /\ unitsOut.tag = "Ok"
              /\ ~unitsOut.overflowed
              /\ unitsOut.value > 0

\* C21: dropping a blocking Queue handle or any of its clones never
\* destroys the kernel queue: the queue and its buffered items stay as they
\* are, and every clone or handle rebuilt from the raw handle works on the
\* same queue, so the items received through any of them are the items sent
\* through any of them, in order, and a send or receive through any handle
\* fails only on a full or empty queue.
QueueOutlivesHandles ==
    /\ bqueueDeleted = 0
    /\ IsPrefix(bqueueRecv, bqueueSent)
    /\ bqueue.items = SubSeq(bqueueSent, Len(bqueueRecv) + 1, Len(bqueueSent))
    /\ qop.kind = "drop" => bqueue.items = qop.before
    /\ (qop.kind = "receive" /\ qop.before # <<>>)
           => (qop.tag = "Ok" /\ qop.item = Head(qop.before))
    /\ (qop.kind = "send" /\ Len(qop.before) < bqueue.uxLength)
           => qop.tag = "Ok"

\* An item sent through a Queue that was dropped while the item was
\* buffered is received through a handle rebuilt from the raw handle
QueueOutlivesHandlesWitness ==
    /\ qop.kind = "receive"
    /\ qop.tag = "Ok"
    /\ Len(bqueueRecv) = MaxQueueItems
    /\ sentVia[MaxQueueItems] = 1
    /\ recvVia[MaxQueueItems] = 2
    /\ sentVia[MaxQueueItems] \notin clones
    /\ raw

\* C22: Timer::once and Timer::periodic with a zero-tick period return
\* Err(ZeroDuration) and create no timer, and TimerHandle::change_period
\* with a zero-tick period returns Err(ZeroDuration) without a kernel
\* command, leaving the timer's period and running state unchanged.
ZeroPeriodRejected ==
    /\ [](/\ (tcall.kind \in {"once", "periodic", "change_period"}
                  /\ tcall.period = 0)
                 => /\ tcall.tag = "Err"
                    /\ tcall.err = ZeroDuration
                    /\ tcall.issued = {}
          /\ timer.created => timer.period > 0)
    /\ [][(tcall'.seq # tcall.seq /\ tcall'.period = 0
              /\ tcall'.kind \in {"once", "periodic", "change_period"})
             => /\ timer' = timer
                /\ timerQueue' = timerQueue
                /\ callback' = callback
                /\ owner' = owner]_vars

\* change_period with zero ticks was refused on a running timer
ZeroPeriodRejectedWitness ==
    /\ tcall.kind = "change_period"
    /\ tcall.period = 0
    /\ tcall.tag = "Err"
    /\ timer.active
    /\ timer.period = MaxPeriod
    /\ owner = "owned"

\* C23: the boxed callback is freed at most once and only at teardown: at
\* once when the timer's creation failed, otherwise by the drop_callback
\* of Timer::drop, after the timer was deleted; it is never invoked after
\* it was freed, and never freed for a detached timer.
CallbackFreedOnce ==
    /\ callback.freed <= 1
    /\ callback.freed = 1 => owner \in {"failed", "dropped"}
    /\ (callback.freed = 1 /\ owner = "dropped")
           => (timer.freed /\ callback.deletedFirst)
    /\ owner = "detached" => callback.freed = 0
    /\ ~callback.usedAfterFree

\* C24: a notification with action SetValue(v) sets the task's
\* notification value to v only when the task has no pending notification;
\* when one is pending the value is left unchanged and the notification
\* call fails: notify_from_isr returns Err(QueueFull).
SetValueOnlyIfNotPending ==
    ncall.action = "SetValue"
        => IF ncall.before.state = "received"
           THEN /\ ncall.after.value = ncall.before.value
                /\ ncall.api = "notify_from_isr"
                       => (ncall.tag = "Err" /\ ncall.item = QueueFull)
           ELSE /\ ncall.after.value = ncall.arg
                /\ ncall.api = "notify_from_isr" => ncall.tag = "Ok"

\* SetValue was refused on a task with a pending notification of another
\* value
SetValueOnlyIfNotPendingWitness ==
    /\ ncall.api = "notify_from_isr"
    /\ ncall.action = "SetValue"
    /\ ncall.before.state = "received"
    /\ ncall.before.value # ncall.arg
    /\ ncall.tag = "Err"
    /\ notif[DriverTask] = ncall.before.value

\* The wake target of t is in the mailbox t registers in, or t was woken,
\* or the peer has taken it out of the mailbox to wake it
Registered(t) ==
    \/ wakers[OwnWaker(op[t].kind)].waker = t
    \/ notif[t] > 0
    \/ (pc[Peer(t)] = "wake_notify" /\ taken[Peer(t)] = t)

\* C27: in every poll of the pollable send the wake target is registered
\* in the send mailbox before spaces_available() is read: when the poll
\* reads it and whenever the poll has returned pending, the target is
\* stored in the send mailbox or has been woken (or is being woken) since
\* its registration, and a receive that frees a slot while the send is
\* pending has woken the sender's task when it returns.
RegisteredBeforeCheck ==
    /\ []((/\ op[SenderTask].kind = "send"
           /\ pc[SenderTask] \in {"spaces_available", "take_notification"})
          => Registered(SenderTask))
    /\ [][(/\ pc[ReceiverTask] # "idle"
           /\ pc'[ReceiverTask] = "idle"
           /\ result'[ReceiverTask].kind \in ReceiveKinds
           /\ result'[ReceiverTask].tag = "Ok"
           /\ op'[SenderTask].kind = "send"
           /\ pc'[SenderTask] = "take_notification")
          => notif'[SenderTask] > 0]_vars

\* A receive has taken the pending sender's target out of the mailbox and
\* woken it
RegisteredBeforeCheckWitness ==
    /\ op[SenderTask].kind = "send"
    /\ pc[SenderTask] = "take_notification"
    /\ polls[SenderTask] = 1
    /\ notif[SenderTask] = 1
    /\ wakers.send_waker.waker = NoWaker
    /\ taken[ReceiverTask] = SenderTask
    /\ pc[ReceiverTask] = "idle"
    /\ result[ReceiverTask].tag = "Ok"

\* Inside AtomicWaker::wake on the peer's mailbox
WakePcs == {"wake_fetch_or", "wake_take", "wake_notify"}

\* C28: every successful send of any variant notifies the receive mailbox
\* only after its item is in the queue, and every successful receive
\* notifies the send mailbox only after its item has left the queue; a
\* failed send or failed receive notifies no mailbox: it returns from
\* outside the notify and changes no mailbox and no notification value.
NotifyAfterQueue ==
    /\ [](\A t \in ChannelTasks :
            pc[t] \in WakePcs
                => /\ op[t].item # NoItem
                   /\ IF op[t].kind \in SendKinds
                      THEN op[t].item[1] \in Range(sentLog)
                      ELSE /\ op[t].item[1] \in Range(recvLog)
                           /\ op[t].item[1] \notin Range(queue.items))
    /\ [][\A t \in ChannelTasks :
            /\ (/\ pc[t] \notin {"idle", "unreachable"}
                /\ \/ pc'[t] = "unreachable"
                   \/ pc'[t] = "idle" /\ result'[t].tag = "Err")
                   => /\ pc[t] \notin WakePcs
                      /\ wakers' = wakers
                      /\ notif' = notif
            /\ (pc[t] \in WakePcs /\ pc'[t] = "idle")
                   => result'[t].tag = "Ok"]_vars

\* A receive_blocking whose item has left the queue is about to wake the
\* pending pollable sender it took out of the send mailbox
NotifyAfterQueueWitness ==
    /\ pc[ReceiverTask] = "wake_notify"
    /\ taken[ReceiverTask] = SenderTask
    /\ op[ReceiverTask].kind = "receive_blocking"
    /\ Len(recvLog) = 1
    /\ op[SenderTask].kind = "send"
    /\ polls[SenderTask] = 1

\* C29: a wake delivered to the driving task after a poll has returned
\* pending and before block_on_future calls take_notification is not lost:
\* the notification value is then non-zero, take_notification returns
\* without suspending the task, and the computation is polled again.
WakeBeforeTakeKept ==
    /\ []((pc[DriverTask] = "take_notification" /\ wakes[DriverTask] > 0)
             => notif[DriverTask] > 0)
    /\ [][(pc[DriverTask] = "take_notification" /\ notif[DriverTask] > 0
              /\ pc'[DriverTask] # pc[DriverTask])
             => /\ pc'[DriverTask] = "countdown_poll"
                /\ polls'[DriverTask] = polls[DriverTask] + 1]_vars
    /\ \A n \in 1..MaxPolls :
          (/\ pc[DriverTask] = "take_notification"
           /\ wakes[DriverTask] > 0
           /\ polls[DriverTask] = n)
          ~> (polls[DriverTask] = n + 1)

\* The wake came before take_notification was called, and the third poll
\* was made without the task having been suspended for it
WakeBeforeTakeKeptWitness ==
    /\ pc[DriverTask] = "take_notification"
    /\ wakes[DriverTask] = 1
    /\ notif[DriverTask] = 1
    /\ polls[DriverTask] = 2
    /\ owed = 0

\* C30: block_on_future polls the computation once on entry and afterwards
\* only after a take_notification(true, Duration::max()) has returned: a
\* poll is followed by the return or by the take, the take clears the
\* value and is made only after a pending poll, never after a ready one,
\* and a take that finds the notification value zero does not return: the
\* task is taken off the ready list and makes no step until it is notified
\* or, where the kernel counts the maximum wait down, until that ran out.
PollTakeAlternate ==
    /\ [](pc[DriverTask] = "idle" => polls[DriverTask] \in {0, fut.needed})
    /\ [][/\ (pc'[DriverTask] = "countdown_poll"
                 /\ pc[DriverTask] # "countdown_poll")
             => \/ /\ pc[DriverTask] = "idle"
                   /\ polls'[DriverTask] = 1
                   /\ notif' = notif
                \/ /\ Taking(DriverTask)
                   /\ notif[DriverTask] > 0
                   /\ notif'[DriverTask] = 0
                   /\ polls'[DriverTask] = polls[DriverTask] + 1
                \/ /\ pc[DriverTask] = "suspended"
                   /\ notif[DriverTask] = 0
                   /\ maxWaitElapses
                   /\ notif' = notif
                   /\ polls'[DriverTask] = polls[DriverTask] + 1
          /\ pc[DriverTask] = "countdown_poll"
             => (pc'[DriverTask] \in {"countdown_poll", "idle",
                                      "take_notification"}
                 /\ notif'[DriverTask] >= notif[DriverTask])
          /\ notif'[DriverTask] < notif[DriverTask]
             => (Taking(DriverTask) /\ pc'[DriverTask] = "countdown_poll")
          /\ (pc[DriverTask] = "take_notification" /\ notif[DriverTask] = 0)
             => (Taking(DriverTask)' /\ polls' = polls)
          /\ (pc[DriverTask] = "suspended" /\ notif[DriverTask] = 0
                 /\ ~maxWaitElapses)
             => (Taking(DriverTask)' /\ polls' = polls)
          /\ (pc[DriverTask] = "suspended" /\ pc'[DriverTask] = "suspended")
             => polls' = polls]_vars

\* The task is suspended after its second pending poll, for a wait that
\* does not run out
PollTakeAlternateWitness ==
    /\ pc[DriverTask] = "suspended"
    /\ ~maxWaitElapses
    /\ notif[DriverTask] = 0
    /\ polls[DriverTask] = 2
    /\ fut.needed = MaxPolls

\* C31: block_on_future returns the driven computation's own result
\* whatever the notification value at its start and however many stale or
\* duplicate wakes arrive: it returns only once the computation is ready,
\* with the computation's value; a wake changes nothing but the
\* notification value; and the driver, once started, returns.
StaleWakesHarmless ==
    /\ [](result[DriverTask].tag # "none"
            => /\ fut.remaining = 0
               /\ result[DriverTask].tag = "Ok"
               /\ result[DriverTask].item = fut.value)
    /\ [][notif'[DriverTask] > notif[DriverTask]
            => /\ pc' = pc
               /\ result' = result
               /\ polls' = polls
               /\ fut' = fut]_vars
    /\ (pc[DriverTask] # "idle") ~> (result[DriverTask].tag = "Ok")

\* The driver returned the value after more polls than a wake of the
\* source alone accounts for, with a notification still left over
StaleWakesHarmlessWitness ==
    /\ pc[DriverTask] = "idle"
    /\ result[DriverTask].tag = "Ok"
    /\ result[DriverTask].item = fut.value
    /\ polls[DriverTask] > MaxPolls
    /\ notif[DriverTask] > 0

\* Position of a task inside AtomicWaker::register
RegisterPcs == {"register_cas", "register_store", "register_take",
                "register_wake"}

\* A notify of the mailbox has taken the task out of it and not woken it yet
InFlight(m, x) ==
    \E t \in Tasks : /\ pc[t] = "wake_notify"
                     /\ PeerWaker(op[t].kind) = m
                     /\ taken[t] = x

\* A wake through the mailbox can still get to the task: the mailbox holds
\* it, a notify has taken it, or it is registering itself there
Reachable(m, x) ==
    \/ wakers[m].waker = x
    \/ InFlight(m, x)
    \/ pc[x] \in RegisterPcs /\ OwnWaker(op[x].kind) = m

\* C32: each wake mailbox holds at most one pending target; a register
\* stores its target whatever the mailbox held; the target it replaced,
\* unless a notify that began before had taken it already, is from then on
\* out of the reach of the mailbox; a notify takes nothing but what the
\* mailbox holds; a task out of the reach of both mailboxes is not woken,
\* and a task gets back in reach of a mailbox only by registering there.
MailboxHoldsOne ==
    /\ [](\A m \in DOMAIN wakers : wakers[m].waker \in Tasks \cup {NoWaker})
    /\ [][\A t \in Tasks :
            (pc[t] = "register_store" /\ pc'[t] # "register_store")
            => LET m == OwnWaker(op[t].kind) IN
                 /\ wakers'[m].waker = t
                 /\ \A x \in Tasks \ {t} :
                       (wakers[m].waker = x /\ ~InFlight(m, x))
                       => ~Reachable(m, x)']_vars
    /\ [][\A t \in Tasks :
            (pc[t] = "wake_take" /\ pc'[t] # "wake_take")
            => LET m == PeerWaker(op[t].kind) IN
                 /\ taken'[t] = wakers[m].waker
                 /\ wakers'[m].waker = NoWaker]_vars
    /\ [][\A x \in Tasks :
            notif'[x] > notif[x]
            => \E m \in DOMAIN wakers : Reachable(m, x)]_vars
    /\ [][\A x \in Tasks, m \in DOMAIN wakers :
            (~Reachable(m, x) /\ Reachable(m, x)')
            => (pc'[x] = "register_cas" /\ OwnWaker(op'[x].kind) = m)]_vars

\* The receiver task registered and abandoned its receive, the driver task
\* registered in its place, and the notify of the first send woke the
\* driver only
MailboxHoldsOneWitness ==
    /\ pc[ReceiverTask] = "idle"
    /\ result[ReceiverTask].kind = "receive"
    /\ result[ReceiverTask].tag = "none"
    /\ notif[ReceiverTask] = 0
    /\ wakes[ReceiverTask] = 0
    /\ pc[DriverTask] = "take_notification"
    /\ op[DriverTask].kind = "receive"
    /\ notif[DriverTask] = 1
    /\ sentLog = <<1>>
    /\ \A t \in Tasks : pc[t] # "wake_notify"
    /\ wakers.receive_waker.waker = NoWaker

\* Wakes a task is still to get for its registrations: a mailbox holds it,
\* a notify or its own register has taken it out and not woken it yet
Holders(x) ==
    LET Held(m) == IF wakers[m].waker = x THEN 1 ELSE 0
        Taken(t) == IF pc[t] \in {"wake_notify", "register_wake"}
                       /\ taken[t] = x
                    THEN 1 ELSE 0
    IN  Held("send_waker") + Held("receive_waker") + Taken(SenderTask)
        + Taken(ReceiverTask) + Taken(DriverTask) + Taken(BlockingToAsyncTask)
        + Taken(ConsumerTask)

\* C33: a notify that finds no target in the mailbox wakes nobody and
\* leaves the mailbox empty; a notify that finds a target takes it out,
\* leaving the mailbox empty, and wakes that target once; every wake uses
\* up one registration of the woken task, and only a register of the task
\* adds one, so one registration is woken at most once however many
\* notifies follow; a task that uses neither handle is never woken.
NotifyWakesOnce ==
    /\ [](\A x \in Tasks \ ChannelTasks : notif[x] = 0)
    /\ [][/\ \A t \in Tasks :
               (pc[t] = "wake_take" /\ pc'[t] # "wake_take")
               => LET m == PeerWaker(op[t].kind) IN
                    /\ wakers'[m].waker = NoWaker
                    /\ notif' = notif
                    /\ IF wakers[m].waker = NoWaker
                       THEN pc'[t] = "idle"
                       ELSE pc'[t] = "wake_notify"
                            /\ taken'[t] = wakers[m].waker
          /\ \A t \in Tasks :
               (pc[t] = "wake_notify" /\ pc'[t] # "wake_notify")
               => notif' = [notif EXCEPT ![taken[t]] = @ + 1]
          /\ \A x \in ChannelTasks :
               /\ notif'[x] > notif[x]
                  => /\ notif'[x] = notif[x] + 1
                     /\ \/ Holders(x)' = Holders(x) - 1
                        \/ pc[x] = "register_cas" /\ Holders(x)' = Holders(x)
               /\ Holders(x)' > Holders(x)
                  => /\ Holders(x)' = Holders(x) + 1
                     /\ pc[x] = "register_store"
                     /\ pc'[x] # "register_store"]_vars

\* The receiver registered once, in its first poll; two sends have notified
\* the mailbox since, and the receiver was woken once
NotifyWakesOnceWitness ==
    /\ pc[ReceiverTask] = "take_notification"
    /\ polls[ReceiverTask] = 1
    /\ notif[ReceiverTask] = 1
    /\ sentLog = <<1, 2>>
    /\ recvLog = <<>>
    /\ pc[SenderTask] = "idle"
    /\ result[SenderTask].tag = "Ok"
    /\ wakers.receive_waker = AtomicWakerDefault

\* The two pump tasks, the items each took from its source, the items it
\* put in its sink, and the sink
Pumps == {AsyncToBlockingTask, BlockingToAsyncTask}
TakenBy(t) == IF t = AsyncToBlockingTask THEN recvLog ELSE bqueueRecv
DeliveredBy(t) == IF t = AsyncToBlockingTask THEN bqueueSent ELSE sentLog2
SinkOf(t) == IF t = AsyncToBlockingTask THEN bqueue ELSE queue2

\* C34: a pump task holds at most one item and never leaves its loop; it
\* takes an item from its source only while it holds none and has delivered
\* all it took; an item it holds leaves its hands only by entering the
\* sink; and while the sink is full the task keeps the item, whatever its
\* sends return.
PumpHoldsOne ==
    /\ [](\A t \in Pumps : /\ Cardinality(InHand(t)) <= 1
                           /\ pc[t] \notin {"panicked", "unreachable"})
    /\ [][\A t \in Pumps :
            /\ TakenBy(t)' # TakenBy(t)
               => /\ InHand(t) = {}
                  /\ Len(TakenBy(t)) = Len(DeliveredBy(t))
            /\ InHand(t) # {}
               => \/ /\ InHand(t)' = InHand(t)
                     /\ DeliveredBy(t)' = DeliveredBy(t)
                  \/ /\ InHand(t)' = {}
                     /\ \E d \in InHand(t) :
                           DeliveredBy(t)' = Append(DeliveredBy(t), d[1])
            /\ (InHand(t) # {} /\ QueueIsFull(SinkOf(t)))
               => InHand(t)' = InHand(t)]_vars

\* The BlockingToAsync task got its item back from a send that timed out on
\* the full channel, and a further item waits in its source
PumpHoldsOneWitness ==
    /\ pc[BlockingToAsyncTask] = "idle"
    /\ result[BlockingToAsyncTask].kind = "send_blocking"
    /\ result[BlockingToAsyncTask].tag = "Err"
    /\ InHand(BlockingToAsyncTask) = {Some(2)}
    /\ QueueIsFull(queue2)
    /\ bqueue.items = <<3>>

\* The items passed to a send so far, how often an item is stored in the
\* queue or was handed to a receive, and the stages of an operation after
\* the kernel call returned pdTRUE
Passed == 1..(nextItem - 1)
Occurrences(seq, i) == Len(SelectSeq(seq, LAMBDA x : x = i))
Places(i) == Occurrences(queue.items, i) + Occurrences(recvLog, i)
AfterKernelCall == {"wake_fetch_or", "wake_take", "wake_notify"}
SendUndecided ==
    op[SenderTask].kind \in SendKinds /\ pc[SenderTask] \notin AfterKernelCall

\* C35: an item passed to send_blocking, send_from_isr or the pollable send
\* (all of them end in Queue::send or Queue::send_from_isr) is in no place
\* while the kernel call is undecided; after the call it is either handed
\* back in Err and in no other place, or it is exactly once in the queue or
\* in the hands of one receive, and the sender gets Ok; an item that was
\* handed back never enters the queue later, an item leaves the queue only
\* into the receive that took it, and no item is received twice.
ItemInOnePlace ==
    /\ [](/\ pc[SenderTask] # "unreachable"
          /\ \A i \in Passed : Places(i) <= 1
          /\ SendUndecided =>
                /\ op[SenderTask].item = Some(nextItem - 1)
                /\ Places(nextItem - 1) = 0
          /\ (op[SenderTask].kind \in SendKinds /\ ~SendUndecided) =>
                /\ op[SenderTask].item = Some(nextItem - 1)
                /\ Places(nextItem - 1) = 1
          /\ (pc[SenderTask] = "idle" /\ result[SenderTask].kind \in SendKinds) =>
                IF result[SenderTask].tag = "Err"
                THEN /\ result[SenderTask].item = Some(nextItem - 1)
                     /\ Places(nextItem - 1) = 0
                ELSE /\ result[SenderTask].item = NoItem
                     /\ Places(nextItem - 1) = 1
          /\ (op[ReceiverTask].kind \in ReceiveKinds
                /\ pc[ReceiverTask] \in AfterKernelCall) =>
                /\ recvLog # <<>>
                /\ op[ReceiverTask].item = Some(recvLog[Len(recvLog)])
          /\ (pc[ReceiverTask] = "idle"
                /\ result[ReceiverTask].kind \in ReceiveKinds) =>
                IF result[ReceiverTask].tag = "Ok"
                THEN /\ recvLog # <<>>
                     /\ result[ReceiverTask].item = Some(recvLog[Len(recvLog)])
                ELSE result[ReceiverTask].item = NoItem)
    /\ [][/\ (queue'.items # queue.items \/ recvLog' # recvLog) =>
                \A i \in Passed :
                    (i < nextItem - 1 \/ ~SendUndecided) =>
                        Places(i)' = Places(i)
          /\ recvLog' # recvLog =>
                /\ recvLog' = Append(recvLog, Head(queue.items))
                /\ queue'.items = Tail(queue.items)
                /\ pc[ReceiverTask] \notin AfterKernelCall
                /\ pc'[ReceiverTask] \in AfterKernelCall
          /\ (queue'.items # queue.items /\ recvLog' = recvLog) =>
                /\ SendUndecided
                /\ queue'.items = Append(queue.items, nextItem - 1)
                /\ pc'[SenderTask] \in AfterKernelCall]_vars

\* Item 3 came back in Err from a full queue that holds item 2, and item 1
\* is in the hands of the receive that took it
ItemInOnePlaceWitness ==
    /\ pc[SenderTask] = "idle"
    /\ result[SenderTask].kind \in SendKinds
    /\ result[SenderTask].tag = "Err"
    /\ result[SenderTask].item = Some(3)
    /\ queue.items = <<2>>
    /\ pc[ReceiverTask] = "idle"
    /\ result[ReceiverTask] = [kind |-> "receive", wait |-> "zero",
                               tag |-> "Ok", item |-> Some(1)]
    /\ recvLog = <<1>>
\* C36: a pollable send that is pending has not put its item in the queue
\* and a pending pollable receive holds no item; every step of a pollable
\* operation that does not end its kernel call with success, its being
\* dropped while pending included, leaves the queue and the logs of what
\* was sent and received as they are, and the dropped operation returns
\* nothing.
AbandonHasNoEffect ==
    /\ [](\A t \in Tasks :
            (op[t].kind \in {"send", "receive"}
                /\ pc[t] \notin AfterKernelCall) =>
                IF op[t].kind = "send"
                THEN op[t].item[1] \notin Range(queue.items) \cup Range(recvLog)
                ELSE op[t].item = NoItem)
    /\ [][\A t \in Tasks :
            (op[t].kind \in {"send", "receive"} /\ pc'[t] # pc[t]
                /\ pc'[t] \notin AfterKernelCall) =>
                /\ queue' = queue
                /\ sentLog' = sentLog
                /\ recvLog' = recvLog
                /\ (pc[t] = "take_notification" /\ pc'[t] = "idle") =>
                       /\ result'[t].tag = "none"
                       /\ result'[t].item = NoItem]_vars

\* The sender's task dropped a pending send on the full queue; the receive
\* after it got the item that was there, and the send after that, polled
\* by another task, put its item in the queue
AbandonHasNoEffectWitness ==
    /\ pc[SenderTask] = "idle"
    /\ result[SenderTask].kind = "send"
    /\ result[SenderTask].tag = "none"
    /\ pc[ReceiverTask] = "idle"
    /\ result[ReceiverTask].kind = "receive"
    /\ result[ReceiverTask].tag = "Ok"
    /\ result[ReceiverTask].item = Some(0)
    /\ pc[DriverTask] = "idle"
    /\ result[DriverTask].kind = "send"
    /\ result[DriverTask].tag = "Ok"
    /\ sentLog = <<0, 1>>
    /\ recvLog = <<0>>
    /\ queue.items = <<1>>
\* C37: every return of a take_notification of block_on_future leaves the
\* notification value zero, so after the first take the value is the number
\* of wakes since the last take; k >= 1 wakes before a take make that one
\* take return into one poll, and the take after it, with no wake since,
\* finds zero and suspends the task, which stays suspended until a wake
\* raises the value or, where the kernel counts the maximum wait down,
\* until that wait ran out.
TakeClearsValue ==
    /\ [](polls[DriverTask] >= 2 => notif[DriverTask] = wakes[DriverTask])
    /\ [][/\ (Taking(DriverTask) /\ ~Taking(DriverTask)') =>
                /\ pc'[DriverTask] = "countdown_poll"
                /\ notif'[DriverTask] = 0
                /\ wakes'[DriverTask] = 0
                /\ polls'[DriverTask] = polls[DriverTask] + 1
                /\ notif[DriverTask] = 0 =>
                       (pc[DriverTask] = "suspended" /\ maxWaitElapses)
          /\ (Taking(DriverTask) /\ Taking(DriverTask)') =>
                /\ polls' = polls
                /\ notif'[DriverTask] >= notif[DriverTask]
                /\ (pc[DriverTask] = "take_notification"
                       /\ pc'[DriverTask] = "suspended") =>
                       notif[DriverTask] = 0
                /\ (pc[DriverTask] = "suspended"
                       /\ pc'[DriverTask] = "take_notification") => FALSE
          /\ (pc[DriverTask] = "take_notification" /\ notif[DriverTask] = 0
                 /\ pc'[DriverTask] # pc[DriverTask]) =>
                pc'[DriverTask] = "suspended"]_vars

\* Two wakes came between the first take and the second, which is about
\* to return into the third poll
TakeClearsValueWitness ==
    /\ pc[DriverTask] = "take_notification"
    /\ polls[DriverTask] = 2
    /\ wakes[DriverTask] = 2
    /\ notif[DriverTask] = 2
    /\ fut.needed = MaxPolls
\* C40: the drop of the last handle calls vQueueDelete once, whatever is in
\* the queue, and in that step and ever after the items that were buffered
\* stay undelivered and no destructor runs for them: the queue's content,
\* the log of received items and every result stay as they are.
BufferedItemsLeak ==
    /\ [](/\ deleted <= 1
          /\ (handles = {} /\ channelResult = "Ok") =>
                /\ deleted = 1
                /\ Range(queue.items) \cap dropped = {}
                /\ Range(queue.items) \cap Range(recvLog) = {}
                /\ recvLog \o queue.items = sentLog)
    /\ [][/\ (handles # {} /\ handles' = {}) =>
                /\ deleted = 0
                /\ deleted' = 1
                /\ queue' = queue
                /\ recvLog' = recvLog
                /\ dropped' = dropped
                /\ result' = result
          /\ (handles = {} /\ channelResult = "Ok") =>
                UNCHANGED <<queue, recvLog, dropped, deleted, result>>]_vars

\* Both handles are gone and the queue of capacity 2 was deleted with two
\* items in it
BufferedItemsLeakWitness ==
    /\ handles = {}
    /\ deleted = 1
    /\ Len(queue.items) = MaxCapacity
    /\ recvLog = <<>>
    /\ dropped = {}
PumpCreateFails ==
    /\ deleted <= 1
    /\ (creator.pc = "returned" /\ creator.builder \in PumpBuilders) =>
          creator.created =
              IF channelResult = "Ok" /\ creator.started = "Ok"
              THEN "Ok" ELSE OutOfMemory
    /\ creator.created = OutOfMemory =>
          /\ thread = "none"
          /\ closure.runs = 0
          /\ handles = {}
          /\ strong = 0
          /\ IF channelResult = "Ok"
             THEN /\ creator.started = OutOfMemory
                  /\ deleted = 1
                  /\ closure.freed = 1
                  /\ closure.captured = {}
             ELSE /\ channelResult = OutOfMemory
                  /\ creator.started = "none"
                  /\ queue = NullQueue
                  /\ deleted = 0
                  /\ closure = NoClosure
    /\ creator.created = "Ok" =>
          /\ thread # "none"
          /\ deleted = 0
          /\ closure.captured = {CapturedHandle(creator.builder)}
          /\ closure.captured \subseteq handles
    /\ thread = "pump_loop" =>
          /\ creator.pc \in {"task_created", "started", "returned"}
          /\ creator.started # OutOfMemory

\* The kernel refused the task of BlockingToAsyncQueueTaskBuilder::create
\* after channel() had made the channel
PumpCreateFailsWitness ==
    /\ creator.builder = "BlockingToAsync"
    /\ creator.pc = "returned"
    /\ creator.created = OutOfMemory
    /\ channelResult = "Ok"
    /\ queue # NullQueue
    /\ deleted = 1
    /\ handles = {}
====
